---------------------------- MODULE Spec2Model ----------------------------
(***************************************************************************)
(* A model of the combinatorial algebra engine of chromatic-matroids:      *)
(* Composition and SetComposition (enumeration, canonical strings, the     *)
(* memoized quasi-shuffle product) and Matroid (validation, extend,        *)
(* relabel).                                                               *)
(*                                                                         *)
(* Python values are modelled as follows.                                  *)
(*   str            a sequence of one-character strings                    *)
(*   list / tuple   a sequence                                             *)
(*   set/frozenset  a set                                                  *)
(*   dict           the sequence of its items <<key, value>> in insertion  *)
(*                  order; a dict that is only looked up by key (the two   *)
(*                  outer levels of a quasi-shuffle table, a relabeling    *)
(*                  map) is a function                                     *)
(*   a raised exception: the field err of the result of a call, "none"     *)
(*                  when the call returned                                 *)
(* A Composition is modelled by its attribute parts; n and nparts are      *)
(* derived from it exactly as __init__ derives them.  A SetComposition is  *)
(* modelled by the record of its attributes parts and ground_set.          *)
(***************************************************************************)
EXTENDS Integers, Sequences, FiniteSets, Bags, TLC

VARIABLES
    c_size,     \* Composition._all_generated_compositions_size
    c_list,     \* Composition._all_generated_compositions_list
    c_qcache,   \* Composition._qshuffle_precomputation_dictionary
    s_size,     \* SetComposition._all_generated_setcompositions_size
    s_list,     \* SetComposition._all_generated_setcompositions_list
    s_qcache,   \* SetComposition._qshuffle_precomputation_dictionary
    opq,        \* first operand held by the caller
    opt,        \* second operand held by the caller
    call,       \* the last call made and its outcome
    mat,        \* the Matroid instance held by the caller: <<m>>, or <<>> for none
    heap        \* the dict objects of the formal sums and of their caller, by address

vars == <<c_size, c_list, c_qcache, s_size, s_list, s_qcache, opq, opt, call, mat,
          heap>>

(***************************************************************************)
(* Bounds of the model.                                                    *)
(***************************************************************************)
\* generate_all_composition is called with n in -1 .. MaxGenComp
MaxGenComp == 7
\* generate_all_setcompositions is called with n in -1 .. MaxGenSC
MaxGenSC == 5
\* Composition operands: the first has sum <= MaxCompQ, the second <= MaxCompT
MaxCompQ == 5
MaxCompT == 2
\* SetComposition operands: the labels are 1 .. MaxLabel, and the labels of the
\* first operand are 1 .. n shifted by at most MaxShiftQ
MaxLabel == 6
MaxShiftQ == 1
\* Matroid: the elements are 1 .. MaxElem, the constructor is given at most
\* MaxBases bases
MaxElem == 3
MaxBases == 2
\* the dict given to the constructor of the first formal sum has up to MaxTerms
\* keys, with coefficients -1 or 1 .. MaxCoeff; the scalars are -1, 0 and
\* MaxScalar; an operation is called while the absolute values of the
\* coefficients of each dict held sum to MaxHeld at most
MaxTerms == 2
MaxCoeff == 1
MaxScalar == 2
MaxHeld == 2

(***************************************************************************)
(* Generic helpers: Python built-ins.                                      *)
(***************************************************************************)
\* Python's None
None == "None"

\* A function constructor is evaluated anew at each application; List gives
\* the same function as an explicit tuple, computed once.
List(f) == f \o <<>>

\* A dict: its items <<key, value>> in insertion order, no key twice.
EmptyDict == <<>>

\* {k: v}
DictItem(k, v) == << <<k, v>> >>

\* list(d): the keys in the order of d
DictKeys(d) == List([i \in 1..Len(d) |-> d[i][1]])

\* the keys of d: "k in d" is k \in KeySet(d)
KeySet(d) == {d[i][1] : i \in 1..Len(d)}

\* the place of the key k of d
DictIndex(d, k) == CHOOSE i \in 1..Len(d) : d[i][1] = k

\* d[k]
DictGet(d, k) == d[DictIndex(d, k)][2]

\* d[k] = v: a key d has keeps its place, a new key is put last
DictSet(d, k, v) ==
    IF k \in KeySet(d) THEN [d EXCEPT ![DictIndex(d, k)] = <<k, v>>]
    ELSE Append(d, <<k, v>>)

\* "if not k in d: d[k] = 0" and then "d[k] += v"
DictAdd(d, k, v) ==
    DictSet(d, k, (IF k \in KeySet(d) THEN DictGet(d, k) ELSE 0) + v)

\* the mapping of d: d1 == d2 on dicts compares the mappings, not the order
DictOf(d) == [k \in KeySet(d) |-> DictGet(d, k)]

\* a table that is only looked up by key, with no entry
EmptyTable == [k \in {} |-> 0]

\* sum(list)
RECURSIVE SeqSum(_)
SeqSum(s) == IF s = <<>> THEN 0 ELSE s[1] + SeqSum(Tail(s))

\* the sum of d[k] over the keys k in K
RECURSIVE SumOver(_, _)
SumOver(K, d) ==
    IF K = {} THEN 0
    ELSE LET k == CHOOSE x \in K : TRUE IN d[k] + SumOver(K \ {k}, d)

\* str(int) for a non-negative int: its decimal digits
DigitChars == <<"0", "1", "2", "3", "4", "5", "6", "7", "8", "9">>

RECURSIVE IntToStr(_)
IntToStr(n) ==
    IF n < 10 THEN <<DigitChars[n + 1]>>
    ELSE IntToStr(n \div 10) \o <<DigitChars[(n % 10) + 1]>>

\* int(str), base 10, on ASCII strings: white space around the numeral is
\* stripped, one sign may lead, and the digits may be grouped by single
\* underscores; anything else raises ValueError, and so does a numeral of
\* more than int_max_str_digits digits
DigitVal == [c \in {DigitChars[d] : d \in 1..10} |->
                (CHOOSE d \in 1..10 : DigitChars[d] = c) - 1]

\* the ASCII white space: blank, tab, line feed, carriage return, form feed
\* and vertical tab
WhiteSpace == {" ", "\t", "\n", "\r", "\f", ""}

\* sys.get_int_max_str_digits(), the default of Python 3.11
int_max_str_digits == 4300

\* s.strip()
IntStrip(s) ==
    LET keep == {i \in 1..Len(s) : s[i] \notin WhiteSpace}
    IN IF keep = {} THEN <<>>
       ELSE SubSeq(s, CHOOSE i \in keep : \A j \in keep : i <= j,
                      CHOOSE i \in keep : \A j \in keep : j <= i)

\* the numeral without its sign
IntUnsigned(s) == IF s # <<>> /\ s[1] \in {"+", "-"} THEN Tail(s) ELSE s

\* digits, with single underscores between digits only, and no more digits
\* than int() converts
IsDigits(s) ==
    /\ Len(s) > 0
    /\ Len(SelectSeq(s, LAMBDA c : c # "_")) <= int_max_str_digits
    /\ \A i \in 1..Len(s) : s[i] \in (DOMAIN DigitVal) \cup {"_"}
    /\ s[1] # "_" /\ s[Len(s)] # "_"
    /\ \A i \in 1..(Len(s) - 1) : ~(s[i] = "_" /\ s[i + 1] = "_")

\* int(s) returns
IsNumeral(s) == IsDigits(IntUnsigned(IntStrip(s)))

\* (a faulty int(), for comparison: only the last digit counts)
StrToIntLastDigit(s) == DigitVal[s[Len(s)]]

\* the value of a string of digits
RECURSIVE DigitsToInt(_)
DigitsToInt(s) ==
    IF Len(s) = 0 THEN 0
    ELSE 10 * DigitsToInt(SubSeq(s, 1, Len(s) - 1)) + DigitVal[s[Len(s)]]

\* int(s), for s with IsNumeral(s)
StrToInt(s) ==
    (IF IntStrip(s)[1] = "-" THEN -1 ELSE 1)
    * DigitsToInt(SelectSeq(IntUnsigned(IntStrip(s)), LAMBDA c : c # "_"))

\* sep.join(list of str)
RECURSIVE Join(_, _)
Join(sep, ss) ==
    IF ss = <<>> THEN <<>>
    ELSE IF Len(ss) = 1 THEN ss[1]
    ELSE ss[1] \o <<sep>> \o Join(sep, Tail(ss))

\* s.split(sep) for a one-character sep: the fields between consecutive
\* separators, so "" splits to [""] and "1|" to ["1", ""]
Split(s, sep) ==
    LET at == {i \in 1..Len(s) : s[i] = sep}
        cut == at \cup {0, Len(s) + 1}
        pos(j) == CHOOSE i \in cut : Cardinality({k \in cut : k < i}) = j
    IN List([j \in 1..(Cardinality(at) + 1) |->
                SubSeq(s, pos(j - 1) + 1, pos(j) - 1)])

(***************************************************************************)
(* Composition                                                             *)
(***************************************************************************)
\* Composition.__str__
Composition_str(parts) ==
    <<"(">> \o Join(",", [i \in 1..Len(parts) |-> IntToStr(parts[i])]) \o <<")">>

\* Composition.__init__ on a list argument: the validation of lines 48-53
Composition_from_list(ps) ==
    IF \E i \in 1..Len(ps) : ps[i] <= 0
    THEN [err |-> "ValueError", parts |-> <<>>]
    ELSE [err |-> "none", parts |-> ps]

\* line 41, "[int(i) for i in ...split(',')]" on the fields of the split: int()
\* of a field that is no numeral raises, and line 43 raises Exception in turn;
\* a numeral that is not positive passes line 41 and raises ValueError at line 53
CompositionOfFields(fields) ==
    IF \E i \in 1..Len(fields) : ~IsNumeral(fields[i])
    THEN [err |-> "Exception", parts |-> <<>>]
    ELSE Composition_from_list(List([i \in 1..Len(fields) |-> StrToInt(fields[i])]))

\* Composition.__init__ on a str argument: the parts, or an error
Composition_from_str(s) ==
    IF s = <<"(", ")">> THEN [err |-> "none", parts |-> <<>>]
    ELSE CompositionOfFields(Split(SubSeq(s, 2, Len(s) - 1), ","))

\* Composition.prepend: Composition([a] + self.parts); returns [err, parts]
Composition_prepend(parts, a) == Composition_from_list(<<a>> \o parts)

\* Composition.rest; returns [err, parts]
Composition_rest(parts) ==
    IF Len(parts) = 0 THEN [err |-> "Exception", parts |-> <<>>]
    ELSE Composition_from_list(Tail(parts))

\* (a faulty loop, for comparison: the first smaller composition is skipped)
PrependAllButFirst(smaller, x) ==
    [i \in 1..(Len(smaller) - 1) |-> Composition_prepend(smaller[i + 1], x).parts]

\* the loop "for alpha in smaller_compositions: answer.append(alpha.prepend(n-k))"
\* (n-k is positive, so prepend does not raise)
PrependAll(smaller, x) ==
    [i \in 1..Len(smaller) |-> Composition_prepend(smaller[i], x).parts]

\* Composition.generate_all_composition(n) from the cache state st = [size, list];
\* returns [err, ret, st].  GenCompLoop is the loop over k from k to n-1.
RECURSIVE generate_all_composition(_, _)
RECURSIVE GenCompLoop(_, _, _, _)
GenCompLoop(k, n, answer, st) ==
    IF k >= n THEN [err |-> "none", answer |-> answer, st |-> st]
    ELSE LET r == generate_all_composition(k, st)
         IN IF r.err # "none" THEN [err |-> r.err, answer |-> answer, st |-> r.st]
            ELSE GenCompLoop(k + 1, n, answer \o PrependAll(r.ret, n - k), r.st)

generate_all_composition(n, st) ==
    IF n < st.size
    THEN [err |-> "none", ret |-> IF n < 0 THEN <<>> ELSE st.list[n + 1], st |-> st]
    ELSE LET first == Composition_from_list(<<n>>)
         IN IF first.err # "none"
            THEN [err |-> first.err, ret |-> <<>>, st |-> st]
            ELSE LET l == GenCompLoop(1, n, <<first.parts>>, st)
                 IN IF l.err # "none" THEN [err |-> l.err, ret |-> <<>>, st |-> l.st]
                    ELSE [err |-> "none", ret |-> l.answer,
                          st |-> [size |-> n + 1, list |-> Append(l.st.list, l.answer)]]

\* "Composition(alphas).prepend(x)", the constructor having returned c (or raised)
CompPrependParsed(c, x) ==
    IF c.err # "none" THEN c ELSE Composition_prepend(c.parts, x)

\* (a faulty step, for comparison: "answer[newqs] = qsh[alphas]", which forgets
\* the coefficient a key already has)
CompAddTermsOverwrite(answer, newqs, coeff) == DictSet(answer, newqs, coeff)

\* lines 194-196: "if not(newqs in answer): answer[newqs] = 0" and then
\* "answer[newqs] += qsh[alphas]", coeff being qsh[alphas]
CompAddTerms(answer, newqs, coeff) == DictAdd(answer, newqs, coeff)

\* one iteration, prepend having returned c (or a call raised), acc = [err, ret]
\* being answer
CompAccumulateItem(acc, c, coeff) ==
    IF c.err # "none" THEN [err |-> c.err, ret |-> acc.ret]
    ELSE [err |-> "none", ret |-> CompAddTerms(acc.ret, Composition_str(c.parts), coeff)]

\* The iterations lo..hi of one loop "for alphas in qsh", numbered in the order
\* of the dict qsh, acc = [err, ret] being answer: the first key that raises
\* ends it.  The range is split in halves to keep the evaluation shallow.
RECURSIVE CompAccumulateLoop(_, _, _, _, _)
CompAccumulateLoop(acc, qsh, lo, hi, x) ==
    IF acc.err # "none" \/ lo > hi THEN acc
    ELSE IF lo = hi
    THEN CompAccumulateItem(acc, CompPrependParsed(Composition_from_str(qsh[lo][1]), x),
                            qsh[lo][2])
    ELSE CompAccumulateLoop(CompAccumulateLoop(acc, qsh, lo, (lo + hi) \div 2, x),
                            qsh, ((lo + hi) \div 2) + 1, hi, x)

\* One loop of lines 192-213: for every key alphas of qsh,
\* answer[str(Composition(alphas).prepend(x))] += qsh[alphas]; returns [err, ret]
CompAccumulate(answer, qsh, x) ==
    CompAccumulateLoop([err |-> "none", ret |-> answer], qsh, 1, Len(qsh), x)

\* the update with the row of the first operand made anew
CompCacheStoreRow(cache, sq, st, answer) ==
    (sq :> (st :> answer)) @@ cache

\* The cache update at the end of Composition.quasi_shuffles
CompCacheStore(cache, sq, st, answer) ==
    LET c1 == IF sq \in DOMAIN cache THEN cache ELSE (sq :> EmptyTable) @@ cache
    IN [c1 EXCEPT ![sq] = (st :> answer) @@ @]

\* Whether Composition.quasi_shuffles(q, t) is answered by the cache check
CompCacheHit(cache, q, t) ==
    /\ Composition_str(q) \in DOMAIN cache
    /\ Composition_str(t) \in DOMAIN cache[Composition_str(q)]

\* Composition.quasi_shuffles(q, t) from the cache; returns [err, ret, cache].
\* An exception raised by a recursive call leaves the function at once.
RECURSIVE Composition_quasi_shuffles(_, _, _)

\* One of the three cases: the recursive call returned r (or raised), and the
\* loop adds its terms, with x prepended, to answer
CompCase(answer, r, x) ==
    IF r.err # "none" THEN r
    ELSE [err |-> CompAccumulate(answer, r.ret, x).err,
          ret |-> CompAccumulate(answer, r.ret, x).ret, cache |-> r.cache]

\* case 1, a prepended to the quasi-shuffles of (qrest, t)
CompCase1(q, t, cache) ==
    CompCase(EmptyDict,
             Composition_quasi_shuffles(Composition_rest(q).parts, t, cache), q[1])

\* case 2, b prepended to the quasi-shuffles of (q, trest)
CompCase2(q, t, s1) ==
    IF s1.err # "none" THEN s1
    ELSE CompCase(s1.ret,
                  Composition_quasi_shuffles(q, Composition_rest(t).parts, s1.cache),
                  t[1])

\* case 3, a + b prepended to the quasi-shuffles of (qrest, trest)
CompCase3(q, t, s2) ==
    IF s2.err # "none" THEN s2
    ELSE CompCase(s2.ret,
                  Composition_quasi_shuffles(Composition_rest(q).parts,
                                             Composition_rest(t).parts, s2.cache),
                  q[1] + t[1])

\* the answer is added to the cache and returned
CompStoreAnswer(q, t, s3) ==
    IF s3.err # "none" THEN s3
    ELSE [err |-> "none", ret |-> s3.ret,
          cache |-> CompCacheStore(s3.cache, Composition_str(q),
                                   Composition_str(t), s3.ret)]

Composition_quasi_shuffles(q, t, cache) ==
    IF CompCacheHit(cache, q, t)
    THEN [err |-> "none", ret |-> cache[Composition_str(q)][Composition_str(t)],
          cache |-> cache]
    ELSE IF SeqSum(q) = 0
    THEN [err |-> "none", ret |-> DictItem(Composition_str(t), 1), cache |-> cache]
    ELSE IF SeqSum(t) = 0
    THEN [err |-> "none", ret |-> DictItem(Composition_str(q), 1), cache |-> cache]
    ELSE CompStoreAnswer(q, t, CompCase3(q, t, CompCase2(q, t, CompCase1(q, t, cache))))

\* Module initialization of compositions.py (lines 222-229)
Composition_PREGEN == 4

CompClassBody == [size |-> 0, list |-> << <<(<<>>)>> >>]

CompGenInit == generate_all_composition(Composition_PREGEN, CompClassBody).st

\* the concatenation of a list of lists (the order of a nested for loop)
RECURSIVE Flatten(_)
Flatten(ll) == IF ll = <<>> THEN <<>> ELSE ll[1] \o Flatten(Tail(ll))

\* Iterations lo..hi of the nested loops "for comp1 ...: for comp2 ...:
\* Composition.quasi_shuffles(comp1, comp2)", numbered in the order the loops run
\* them; the range is split in halves to keep the evaluation shallow.
RECURSIVE CompPregenLoop(_, _, _, _)

\* the second half, after the first half returned left (or raised)
CompPregenRest(left, lo, hi, all) ==
    IF left.err # "none" THEN left ELSE CompPregenLoop(lo, hi, all, left.cache)

\* the call of one iteration returned r (or raised)
CompPregenStep(r) == [err |-> r.err, cache |-> r.cache]

CompPregenLoop(lo, hi, all, cache) ==
    IF lo > hi THEN [err |-> "none", cache |-> cache]
    ELSE IF lo = hi
    THEN CompPregenStep(
             Composition_quasi_shuffles(all[((lo - 1) \div Len(all)) + 1],
                                        all[((lo - 1) % Len(all)) + 1], cache))
    ELSE CompPregenRest(CompPregenLoop(lo, (lo + hi) \div 2, all, cache),
                        ((lo + hi) \div 2) + 1, hi, all)

\* the whole of the nested loops over the list all, from the empty cache
CompPregen(all) == CompPregenLoop(1, Len(all) * Len(all), all, EmptyTable).cache

(***************************************************************************)
(* SetComposition                                                          *)
(***************************************************************************)
\* the elements of a sequence
Range(s) == {s[i] : i \in 1..Len(s)}

\* the ascending sequence of a finite set of integers
SortSet(S) ==
    List([i \in 1..Cardinality(S) |->
             CHOOSE x \in S : Cardinality({y \in S : y < x}) = i - 1])

\* list(set) for a set of positive ints, as CPython 3.11 lays a set out: an
\* open-addressing table of PySet_MINSIZE slots at first, an int hashing to
\* itself; a key goes to the first free slot among its slot and the next
\* LINEAR_PROBES ones (when they all lie in the table), else the probe jumps;
\* the table is rebuilt larger once three fifths of it are filled; the list is
\* the keys in slot order.
PySet_MINSIZE == 8
LINEAR_PROBES == 9
PERTURB_SHIFT == 5

\* the slot where key is, or is to be put (0 marks a free slot)
RECURSIVE SetLookSlot(_, _, _, _, _)
SetLookSlot(table, mask, key, i, perturb) ==
    LET open == {j \in 0..(IF i + LINEAR_PROBES <= mask THEN LINEAR_PROBES ELSE 0) :
                    table[i + j] \in {0, key}}
    IN IF open # {} THEN i + (CHOOSE j \in open : \A k \in open : j <= k)
       ELSE SetLookSlot(table, mask, key,
                        (i * 5 + 1 + (perturb \div 2^PERTURB_SHIFT)) % (mask + 1),
                        perturb \div 2^PERTURB_SHIFT)

\* the keys of the table in slot order
SetEntries(table, mask) ==
    SelectSeq([i \in 1..(mask + 1) |-> table[i - 1]], LAMBDA x : x # 0)

\* the size of the rebuilt table, from n slots up: the smallest power of two
\* above four times the number of keys, and above twice the number of keys
\* once the set holds more than 50000 keys
RECURSIVE SetNewSize(_, _)
SetNewSize(n, used) ==
    IF n > (IF used > 50000 THEN used * 2 ELSE used * 4) THEN n
    ELSE SetNewSize(2 * n, used)

\* the keys of the list put one after the other into the table
RECURSIVE SetInsertAll(_, _, _, _)
SetInsertAll(table, mask, keys, i) ==
    IF i > Len(keys) THEN table
    ELSE SetInsertAll(
             [table EXCEPT ![SetLookSlot(table, mask, keys[i], keys[i] % (mask + 1),
                                         keys[i])] = keys[i]],
             mask, keys, i + 1)

\* the table rebuilt with n slots
SetResize(st, n) ==
    [table |-> SetInsertAll([s \in 0..(n - 1) |-> 0], n - 1,
                            SetEntries(st.table, st.mask), 1),
     mask |-> n - 1, fill |-> st.fill]

\* set.add(key) on st = [table, mask, fill]
SetAdd(st, key) ==
    LET s == SetLookSlot(st.table, st.mask, key, key % (st.mask + 1), key)
    IN IF st.table[s] = key THEN st
       ELSE IF (st.fill + 1) * 5 >= st.mask * 3
       THEN SetResize([table |-> [st.table EXCEPT ![s] = key], mask |-> st.mask,
                       fill |-> st.fill + 1],
                      SetNewSize(PySet_MINSIZE, st.fill + 1))
       ELSE [table |-> [st.table EXCEPT ![s] = key], mask |-> st.mask,
             fill |-> st.fill + 1]

RECURSIVE SetAddAll(_, _, _)
SetAddAll(st, elems, i) ==
    IF i > Len(elems) THEN st ELSE SetAddAll(SetAdd(st, elems[i]), elems, i + 1)

\* set() after the add of each element of the list in turn
SetOfList(elems) ==
    SetAddAll([table |-> [s \in 0..(PySet_MINSIZE - 1) |-> 0],
               mask |-> PySet_MINSIZE - 1, fill |-> 0], elems, 1)

\* list(s) of the set s built by adding the elements of elems in turn.  While
\* every key is below PySet_MINSIZE each sits at the slot of its value, in the
\* first table and in a rebuilt one, so the list is ascending.
ListOfSet(elems) ==
    IF \A i \in 1..Len(elems) : elems[i] < PySet_MINSIZE
    THEN SortSet(Range(elems))
    ELSE SetEntries(SetOfList(elems).table, SetOfList(elems).mask)

\* SetComposition.__init__ on a list of parts (each a list of ints): lines 52-69.
\* Returns [err, sc]; sc = [parts, ground_set].
EmptySC == [parts |-> <<>>, ground_set |-> <<>>]

SetComposition_from_list(parts) ==
    LET elems == Flatten(parts)
    IN IF \E i \in 1..Len(elems) : elems[i] <= 0
       THEN [err |-> "ValueError", sc |-> EmptySC]
       ELSE IF \E i, j \in 1..Len(elems) : i < j /\ elems[i] = elems[j]
       THEN [err |-> "ValueError", sc |-> EmptySC]
       ELSE [err |-> "none",
             sc |-> [parts |-> List([i \in 1..Len(parts) |-> SortSet(Range(parts[i]))]),
                     ground_set |-> ListOfSet(elems)]]

\* line 46 on the fields of the split parts: int() of a field that is no
\* numeral raises ValueError; then the validation (a numeral that is not
\* positive raises ValueError there)
SetCompositionOfFields(fields) ==
    IF \E i \in 1..Len(fields) : \E j \in 1..Len(fields[i]) : ~IsNumeral(fields[i][j])
    THEN [err |-> "ValueError", sc |-> EmptySC]
    ELSE SetComposition_from_list(
             List([i \in 1..Len(fields) |->
                 List([j \in 1..Len(fields[i]) |-> StrToInt(fields[i][j])])]))

\* "part.split(',') for part in ..."
SplitEach(blocks) == List([i \in 1..Len(blocks) |-> Split(blocks[i], ",")])

\* SetComposition.__init__ on a str: lines 42-46, then the validation
SetComposition_from_str(s) ==
    IF s = <<"(", ")">> THEN [err |-> "none", sc |-> EmptySC]
    ELSE SetCompositionOfFields(SplitEach(Split(SubSeq(s, 2, Len(s) - 1), "|")))

\* SetComposition.__str__
SetComposition_str(sc) ==
    <<"(">>
    \o Join("|", [i \in 1..Len(sc.parts) |->
                    Join(",", [j \in 1..Len(sc.parts[i]) |-> IntToStr(sc.parts[i][j])])])
    \o <<")">>

\* SetComposition.rest: the test of line 101 compares a list with frozenset() and
\* is never true, so rest never raises
SetComposition_rest(sc) ==
    SetComposition_from_list(IF sc.parts = <<>> THEN <<>> ELSE Tail(sc.parts))

\* SetComposition.prepend(a), a a list of ints
SetComposition_prepend(sc, a) == SetComposition_from_list(<<a>> \o sc.parts)

\* (a faulty line 145, for comparison: a label that is no key is kept)
SetComposition_relabel_keep(sc, relabeling_map) ==
    SetComposition_from_list(
        [i \in 1..Len(sc.parts) |->
            [j \in 1..Len(sc.parts[i]) |->
                IF sc.parts[i][j] \in DOMAIN relabeling_map
                THEN relabeling_map[sc.parts[i][j]] ELSE sc.parts[i][j]]])

\* SetComposition.relabel with a dict: line 145 (a missing key raises KeyError)
SetComposition_relabel_dict(sc, relabeling_map) ==
    IF \E i \in 1..Len(sc.parts) : \E j \in 1..Len(sc.parts[i]) :
           sc.parts[i][j] \notin DOMAIN relabeling_map
    THEN [err |-> "KeyError", sc |-> EmptySC]
    ELSE SetComposition_from_list(
             [i \in 1..Len(sc.parts) |->
                 [j \in 1..Len(sc.parts[i]) |-> relabeling_map[sc.parts[i][j]]]])

\* SetComposition.relabel with a list or tuple: lines 132-138
SetComposition_relabel_list(sc, labels) ==
    IF Len(labels) # Len(sc.ground_set)
    THEN [err |-> "Exception", sc |-> EmptySC]
    ELSE SetComposition_relabel_dict(sc,
             [e \in Range(sc.ground_set) |->
                 labels[CHOOSE i \in 1..Len(sc.ground_set) : sc.ground_set[i] = e]])

\* SetComposition.relabel(None): lines 139-142
SetComposition_relabel_none(sc) ==
    SetComposition_relabel_dict(sc,
        [e \in Range(sc.ground_set) |->
            CHOOSE i \in 1..Len(sc.ground_set) : sc.ground_set[i] = e])

\* (a faulty combinations, for comparison: only the first combination)
CombinationsFirstOnly(s, k) == IF Len(s) < k THEN <<>> ELSE <<SubSeq(s, 1, k)>>

\* SetComposition.alpha: line 148, "Composition([len(part) for part in
\* self.parts])"; returns [err, parts] (an empty block raises ValueError)
SetComposition_alpha(sc) ==
    Composition_from_list(List([i \in 1..Len(sc.parts) |-> Len(sc.parts[i])]))

\* itertools.combinations(s, k): the k-element subsequences in lexicographic order
RECURSIVE Combinations(_, _)
Combinations(s, k) ==
    IF k = 0 THEN << <<>> >>
    ELSE IF Len(s) < k THEN <<>>
    ELSE LET with == Combinations(Tail(s), k - 1)
         IN [i \in 1..Len(with) |-> <<s[1]>> \o with[i]] \o Combinations(Tail(s), k)

\* list(range(lo, hi + 1))
RangeList(lo, hi) == List([i \in 1..(hi - lo + 1) |-> lo + i - 1])

\* "smaller.relabel(rest).prepend(first)", relabel having returned rl (or raised)
SCPrependRelabeled(rl, first) ==
    IF rl.err # "none" THEN rl ELSE SetComposition_prepend(rl.sc, first)

\* Lines 181-188 for one size_rest: for every rest, for every smaller set
\* composition, smaller.relabel(rest).prepend(first); the results in loop order.
\* first is a frozenset, which the constructor reads with list(part).
GenSCForRests(ground_set, rests, smaller) ==
    Flatten([r \in 1..Len(rests) |->
        [i \in 1..Len(smaller) |->
            SCPrependRelabeled(
                SetComposition_relabel_list(smaller[i], rests[r]),
                ListOfSet(SelectSeq(ground_set, LAMBDA k : k \notin Range(rests[r]))))]])

\* SetComposition.generate_all_setcompositions(n) from st = [size, list]; returns
\* [err, ret, st].  GenSCLoop is the loop over size_rest from size_rest to n-1.
RECURSIVE generate_all_setcompositions(_, _)
RECURSIVE GenSCLoop(_, _, _, _)

\* the set compositions new of one size_rest are appended, and the loop goes on
GenSCAppend(size_rest, n, answer, st, new) ==
    IF \E i \in 1..Len(new) : new[i].err # "none"
    THEN [err |-> "ValueError", answer |-> answer, st |-> st]
    ELSE GenSCLoop(size_rest + 1, n, answer \o [i \in 1..Len(new) |-> new[i].sc], st)

\* line 180: the recursive call returned r (or raised)
GenSCSmaller(size_rest, n, answer, r) ==
    IF r.err # "none" THEN [err |-> r.err, answer |-> answer, st |-> r.st]
    ELSE GenSCAppend(size_rest, n, answer, r.st,
                     GenSCForRests(RangeList(1, n),
                                   Combinations(RangeList(1, n), size_rest), r.ret))

GenSCLoop(size_rest, n, answer, st) ==
    IF size_rest >= n THEN [err |-> "none", answer |-> answer, st |-> st]
    ELSE GenSCSmaller(size_rest, n, answer, generate_all_setcompositions(size_rest, st))

\* (the list cached without the size being recorded, for comparison)
GenSCStoreNoSize(n, l) ==
    IF l.err # "none" THEN [err |-> l.err, ret |-> <<>>, st |-> l.st]
    ELSE [err |-> "none", ret |-> l.answer,
          st |-> [size |-> l.st.size, list |-> Append(l.st.list, l.answer)]]

\* lines 190-193: the loop returned l (or raised); the list is cached and returned
GenSCStore(n, l) ==
    IF l.err # "none" THEN [err |-> l.err, ret |-> <<>>, st |-> l.st]
    ELSE [err |-> "none", ret |-> l.answer,
          st |-> [size |-> n + 1, list |-> Append(l.st.list, l.answer)]]

\* line 176: the set composition with the single part {1..n} comes first
GenSCFirst(n, st, first) ==
    IF first.err # "none" THEN [err |-> first.err, ret |-> <<>>, st |-> st]
    ELSE GenSCStore(n, GenSCLoop(1, n, <<first.sc>>, st))

generate_all_setcompositions(n, st) ==
    IF n < st.size
    THEN [err |-> "none", ret |-> IF n < 0 THEN <<>> ELSE st.list[n + 1], st |-> st]
    ELSE GenSCFirst(n, st, SetComposition_from_list(<<RangeList(1, n)>>))

\* The map of lines 204-209 and 233-238: canonical label i+1 to the i-th element
\* of q_in.ground_set followed by t_in.ground_set
SCUnrelabelMap(q_in, t_in) ==
    LET lq == Len(q_in.ground_set)
        lt == Len(t_in.ground_set)
    IN List([i \in 1..(lq + lt) |->
                IF i <= lq THEN q_in.ground_set[i] ELSE t_in.ground_set[i - lq]])

\* "SetComposition(k).relabel(relabel_map)", the constructor having returned c
SCRelabelParsed(c, relabel_map) ==
    IF c.err # "none" THEN c ELSE SetComposition_relabel_dict(c.sc, relabel_map)

\* one item of the comprehension, relabel having returned r (or a call raised):
\* a key the new dict has keeps its place and takes the coefficient coeff
SCRelabelItem(acc, r, coeff) ==
    IF r.err # "none" THEN [err |-> r.err, ret |-> EmptyDict]
    ELSE [err |-> "none", ret |-> DictSet(acc.ret, SetComposition_str(r.sc), coeff)]

\* the items lo..hi of the comprehension, numbered in the order of d, acc =
\* [err, ret] being the dict made so far: the first key that raises ends it.
\* The range is split in halves to keep the evaluation shallow.
RECURSIVE SCRelabelLoop(_, _, _, _, _)
SCRelabelLoop(d, lo, hi, relabel_map, acc) ==
    IF acc.err # "none" \/ lo > hi THEN acc
    ELSE IF lo = hi
    THEN SCRelabelItem(acc,
                       SCRelabelParsed(SetComposition_from_str(d[lo][1]), relabel_map),
                       d[lo][2])
    ELSE SCRelabelLoop(d, ((lo + hi) \div 2) + 1, hi, relabel_map,
                       SCRelabelLoop(d, lo, (lo + hi) \div 2, relabel_map, acc))

\* {str(SetComposition(k).relabel(relabel_map)): coeff for k, coeff in d.items()},
\* lines 212-213 and 239-240; returns [err, ret].  The items come in the order
\* of d; two keys may be relabeled to one string (two strings of one set
\* composition, or a relabel_map that is not injective).
SCRelabelKeys(d, relabel_map) ==
    SCRelabelLoop(d, 1, Len(d), relabel_map, [err |-> "none", ret |-> EmptyDict])

\* The canonical operands q = q_in.relabel(None) and
\* t = t_in.relabel(list(range(lq+1, lq+lt+1))) as strings
SCCanonicalQ(q_in) == SetComposition_str(SetComposition_relabel_none(q_in).sc)

SCCanonicalT(q_in, t_in) ==
    SetComposition_str(SetComposition_relabel_list(t_in,
        RangeList(Len(q_in.ground_set) + 1,
                  Len(q_in.ground_set) + Len(t_in.ground_set))).sc)

\* line 218: the relabeled answer qs is stored under the canonical operands
SCCacheAdd(sq, st, qs, cache) ==
    IF qs.err # "none" THEN [err |-> qs.err, cache |-> cache]
    ELSE [err |-> "none", cache |-> CompCacheStore(cache, sq, st, qs.ret)]

\* SetComposition.quasi_shuffles_add_to_cache; returns [err, cache]
quasi_shuffles_add_to_cache(q_in, t_in, qs_in, cache) ==
    SCCacheAdd(SCCanonicalQ(q_in), SCCanonicalT(q_in, t_in),
               SCRelabelKeys(qs_in, SCUnrelabelMap(q_in, t_in)), cache)

\* lines 240-241: the cached answer relabeled to qs (or the relabeling raised)
SCCacheFound(qs) == [err |-> qs.err, found |-> TRUE, qs |-> qs.ret]

\* lines 229-241: the look-up under the canonical operands
SCCacheLookup(sq, st, q_in, t_in, cache) ==
    IF sq \in DOMAIN cache /\ st \in DOMAIN cache[sq]
    THEN SCCacheFound(SCRelabelKeys(cache[sq][st], SCUnrelabelMap(q_in, t_in)))
    ELSE [err |-> "none", found |-> FALSE, qs |-> EmptyDict]

\* SetComposition.quasi_shuffles_fetch_from_cache; returns [err, found, qs]
quasi_shuffles_fetch_from_cache(q_in, t_in, cache) ==
    SCCacheLookup(SCCanonicalQ(q_in), SCCanonicalT(q_in, t_in), q_in, t_in, cache)

\* "SetComposition(opistr).prepend(x)", the constructor having returned c
SCPrependParsed(c, x) ==
    IF c.err # "none" THEN c ELSE SetComposition_prepend(c.sc, x)

\* "if not(newqs in answer): answer[newqs] = 0" and then
\* "answer[newqs] += qsh[opistr]", prepend having returned c (or a call raised)
SCAddTerms(acc, c, coeff) ==
    IF c.err # "none" THEN [err |-> c.err, ret |-> acc.ret]
    ELSE [err |-> "none", ret |-> DictAdd(acc.ret, SetComposition_str(c.sc), coeff)]

\* the iterations lo..hi of one loop, numbered in the order of the dict qsh,
\* acc = [err, ret] being answer: the first key that raises ends it.  The
\* range is split in halves to keep the evaluation shallow.
RECURSIVE SCAccumulateLoop(_, _, _, _, _)
SCAccumulateLoop(acc, qsh, lo, hi, x) ==
    IF acc.err # "none" \/ lo > hi THEN acc
    ELSE IF lo = hi
    THEN SCAddTerms(acc, SCPrependParsed(SetComposition_from_str(qsh[lo][1]), x),
                    qsh[lo][2])
    ELSE SCAccumulateLoop(SCAccumulateLoop(acc, qsh, lo, (lo + hi) \div 2, x),
                          qsh, ((lo + hi) \div 2) + 1, hi, x)

\* One loop of lines 300-320: for every key opistr of qsh,
\* answer[str(SetComposition(opistr).prepend(x))] += qsh[opistr]; returns [err, ret]
SCAccumulate(answer, qsh, x) ==
    SCAccumulateLoop([err |-> "none", ret |-> answer], qsh, 1, Len(qsh), x)

\* SetComposition.quasi_shuffles(q, t) from the cache; returns [err, ret, cache].
\* raise("Exception") of lines 274 and 277 raises TypeError (a str is not an
\* exception).
SCFail(err, cache) == [err |-> err, ret |-> EmptyDict, cache |-> cache]

\* (a faulty test, for comparison: the operands are never found to overlap)
SCGroundSetsNeverOverlap(q, t) == FALSE

\* lines 272-277: some element of one ground set is in the other
SCGroundSetsOverlap(q, t) == Range(q.ground_set) \cap Range(t.ground_set) # {}

RECURSIVE SetComposition_quasi_shuffles(_, _, _)

\* the loop of one case returned acc (or raised) after the recursive call r
SCCaseDone(acc, r) ==
    IF acc.err # "none" THEN SCFail(acc.err, r.cache)
    ELSE [err |-> "none", ret |-> acc.ret, cache |-> r.cache]

\* One of the three cases: the recursive call returned r (or raised), and the
\* loop adds its terms, with x prepended, to answer
SCCase(answer, r, x) ==
    IF r.err # "none" THEN r ELSE SCCaseDone(SCAccumulate(answer, r.ret, x), r)

\* lines 298-304: case 1, a prepended to the quasi-shuffles of (qrest, t)
SCCase1(q, t, cache) ==
    SCCase(EmptyDict,
           SetComposition_quasi_shuffles(SetComposition_rest(q).sc, t, cache),
           q.parts[1])

\* lines 306-312: case 2, b prepended to the quasi-shuffles of (q, trest)
SCCase2(q, t, s1) ==
    IF s1.err # "none" THEN s1
    ELSE SCCase(s1.ret,
                SetComposition_quasi_shuffles(q, SetComposition_rest(t).sc, s1.cache),
                t.parts[1])

\* lines 314-320: case 3, a + b prepended to the quasi-shuffles of (qrest, trest)
SCCase3(q, t, s2) ==
    IF s2.err # "none" THEN s2
    ELSE SCCase(s2.ret,
                SetComposition_quasi_shuffles(SetComposition_rest(q).sc,
                                              SetComposition_rest(t).sc, s2.cache),
                q.parts[1] \o t.parts[1])

\* line 322 returned added (or raised)
SCStored(added, s3) ==
    IF added.err # "none" THEN SCFail(added.err, s3.cache)
    ELSE [err |-> "none", ret |-> s3.ret, cache |-> added.cache]

\* lines 322-324: the answer is added to the cache and returned
SCStoreAnswer(q, t, s3) ==
    IF s3.err # "none" THEN s3
    ELSE SCStored(quasi_shuffles_add_to_cache(q, t, s3.ret, s3.cache), s3)

\* lines 290-324: the three cases in turn, then the cache
SCShuffleRecursion(q, t, cache) ==
    SCStoreAnswer(q, t, SCCase3(q, t, SCCase2(q, t, SCCase1(q, t, cache))))

\* lines 283-288: the cache answered f (or raised), or the answer is computed
SCFetched(f, q, t, cache) ==
    IF f.err # "none" THEN SCFail(f.err, cache)
    ELSE IF f.found THEN [err |-> "none", ret |-> f.qs, cache |-> cache]
    ELSE SCShuffleRecursion(q, t, cache)

SetComposition_quasi_shuffles(q, t, cache) ==
    IF SCGroundSetsOverlap(q, t)
    THEN SCFail("TypeError", cache)
    ELSE IF Len(q.ground_set) = 0
    THEN [err |-> "none", ret |-> DictItem(SetComposition_str(t), 1), cache |-> cache]
    ELSE IF Len(t.ground_set) = 0
    THEN [err |-> "none", ret |-> DictItem(SetComposition_str(q), 1), cache |-> cache]
    ELSE SCFetched(quasi_shuffles_fetch_from_cache(q, t, cache), q, t, cache)

\* Module initialization of setcompositions.py (lines 327-336)
SetComposition_PREGEN == 3

SCClassBody == [size |-> 1, list |-> << <<EmptySC>> >>]

SCGenInit == generate_all_setcompositions(SetComposition_PREGEN, SCClassBody).st

RECURSIVE SCPregenLoop(_, _, _, _)

\* the second half, after the first half returned left (or raised)
SCPregenRest(left, lo, hi, all) ==
    IF left.err # "none" THEN left ELSE SCPregenLoop(lo, hi, all, left.cache)

\* the call of one iteration returned r (or raised)
SCPregenStep(r) == [err |-> r.err, cache |-> r.cache]

\* lines 333-336: scomp2 relabeled to shifted (or relabel raised), then the call
SCPregenCall(scomp1, shifted, cache) ==
    IF shifted.err # "none" THEN [err |-> shifted.err, cache |-> cache]
    ELSE SCPregenStep(SetComposition_quasi_shuffles(scomp1, shifted.sc, cache))

\* lines 333-334: scomp2 with every label raised by the size of scomp1
SCPregenShift(scomp1, scomp2) ==
    SetComposition_relabel_dict(scomp2,
        [i \in 1..Len(scomp2.ground_set) |-> i + Len(scomp1.ground_set)])

\* Iterations lo..hi of the nested loops over the pairs (scomp1, scomp2) of the
\* list all, numbered in the order the loops run them
SCPregenLoop(lo, hi, all, cache) ==
    IF lo > hi THEN [err |-> "none", cache |-> cache]
    ELSE IF lo = hi
    THEN SCPregenCall(all[((lo - 1) \div Len(all)) + 1],
                      SCPregenShift(all[((lo - 1) \div Len(all)) + 1],
                                    all[((lo - 1) % Len(all)) + 1]), cache)
    ELSE SCPregenRest(SCPregenLoop(lo, (lo + hi) \div 2, all, cache),
                      ((lo + hi) \div 2) + 1, hi, all)

\* the whole of the nested loops over the list all, from the empty cache
SCPregen(all) == SCPregenLoop(1, Len(all) * Len(all), all, EmptyTable).cache

(***************************************************************************)
(* Matroid: a record of the attributes ground_set and bases_sets.          *)
(***************************************************************************)
\* (a faulty test, for comparison: a basis is also compared with itself)
NeverSame(B1, B2) == FALSE

\* lines 43-44: "if(B1 == B2): continue"
SameBasis(B1, B2) == B1 = B2

\* line 51: "B2 | {i} - {j}"; the difference binds tighter than the union
ExchangeCandidate(B2, i, j) == B2 \cup ({i} \ {j})

\* lines 45-57: exchange_exists after the loops over i in B2 and j in B1
ExchangeExists(B1, B2, bases_sets) ==
    \E i \in B2 : i \notin B1 /\
        \E j \in B1 : j \notin B2 /\ ExchangeCandidate(B2, i, j) \in bases_sets

\* Matroid._validate_matroid: the exception it raises, "none" if it returns
Matroid_validate_matroid(bases_sets) ==
    IF bases_sets = {} THEN "Exception"
    ELSE IF \E B1, B2 \in bases_sets :
                ~SameBasis(B1, B2) /\ ~ExchangeExists(B1, B2, bases_sets)
    THEN "Exception"
    ELSE "none"

\* Matroid.__init__; returns [err, m]
Matroid_init(ground_set, bases_sets) ==
    LET err == Matroid_validate_matroid(bases_sets)
    IN [err |-> err,
        m |-> IF err = "none"
              THEN [ground_set |-> ground_set, bases_sets |-> bases_sets]
              ELSE None]

\* lines 139-142 for one element: the sets the loop adds to new_bases_sets
ExtendCandidates(m, new_bases_sets, element) ==
    {(basis_set \ {i}) \cup {element} :
        <<basis_set, i>> \in {p \in new_bases_sets \X m.ground_set : p[2] \in p[1]}}

\* Matroid.extend, the loop of lines 135-142 from position k of elements.  A set
\* that grows while the for loop of line 139 iterates over it makes the next
\* step of that loop raise RuntimeError.
RECURSIVE ExtendLoop(_, _, _, _, _)
ExtendLoop(m, elements, k, new_ground_set, new_bases_sets) ==
    IF k > Len(elements)
    THEN [err |-> "none", ground_set |-> new_ground_set, bases_sets |-> new_bases_sets]
    ELSE IF elements[k] \in new_ground_set
    THEN [err |-> "Exception", ground_set |-> new_ground_set,
          bases_sets |-> new_bases_sets]
    ELSE IF ~(ExtendCandidates(m, new_bases_sets, elements[k]) \subseteq new_bases_sets)
    THEN [err |-> "RuntimeError", ground_set |-> new_ground_set,
          bases_sets |-> new_bases_sets]
    ELSE ExtendLoop(m, elements, k + 1, new_ground_set \cup {elements[k]},
                    new_bases_sets)

\* Matroid.extend(elements); returns [err, m]
Matroid_extend(m, elements) ==
    LET l == ExtendLoop(m, elements, 1, m.ground_set, m.bases_sets)
    IN IF l.err # "none" THEN [err |-> l.err, m |-> None]
       ELSE Matroid_init(l.ground_set, l.bases_sets)

\* Matroid.relabel(bijection); returns [err, m]
Matroid_relabel(m, bijection) ==
    IF ~(m.ground_set \subseteq DOMAIN bijection)
       \/ ~(UNION m.bases_sets \subseteq DOMAIN bijection)
    THEN [err |-> "KeyError", m |-> None]
    ELSE Matroid_init({bijection[i] : i \in m.ground_set},
                      {{bijection[i] : i \in basis_set} : basis_set \in m.bases_sets})

(***************************************************************************)
(* The state after the modules are imported, and the calls a client makes. *)
(***************************************************************************)
NoCall == [op |-> "none", args |-> <<>>, hit |-> FALSE, err |-> "none", ret |-> None]

\* the two generators ran to cgen and sgen; then the two nested loops
Imported(cgen, sgen) ==
    /\ c_size = cgen.size
    /\ c_list = cgen.list
    /\ c_qcache = CompPregen(Flatten(cgen.list))
    /\ s_size = sgen.size
    /\ s_list = sgen.list
    /\ s_qcache = SCPregen(Flatten(sgen.list))
    /\ mat = <<>>
    /\ heap = <<>>
    /\ call = NoCall

ImportedState == Imported(CompGenInit, SCGenInit)

\* The compositions of n, each named by the set of its partial sums below n
\* (the definition of a composition, not the program's enumeration of them)
CompositionOfCuts(S, n) ==
    LET T == S \cup {0, n}
        pt(i) == CHOOSE x \in T : Cardinality({y \in T : y < x}) = i - 1
    IN [i \in 1..(Cardinality(T) - 1) |-> pt(i + 1) - pt(i)]

CompositionsOf(n) ==
    IF n = 0 THEN {<<>>} ELSE {CompositionOfCuts(S, n) : S \in SUBSET (1..(n - 1))}

\* every sequence of positive integers with sum <= n
CompositionsUpTo(n) == UNION {CompositionsOf(m) : m \in 0..n}

\* A client calls Composition.generate_all_composition(n)
CallGenerateAllComposition(n) ==
    \E r \in {generate_all_composition(n, [size |-> c_size, list |-> c_list])} :
       /\ c_size' = r.st.size
       /\ c_list' = r.st.list
       /\ call' = [op |-> "Composition.generate_all_composition", args |-> <<n>>,
                   hit |-> (n < c_size), err |-> r.err, ret |-> r.ret]
       /\ UNCHANGED <<c_qcache, s_size, s_list, s_qcache, opq, opt, mat, heap>>

\* A client calls Composition.quasi_shuffles(q, t)
CallCompositionQuasiShuffles(q, t) ==
    \E r \in {Composition_quasi_shuffles(q, t, c_qcache)} :
       /\ c_qcache' = r.cache
       /\ call' = [op |-> "Composition.quasi_shuffles", args |-> <<q, t>>,
                   hit |-> CompCacheHit(c_qcache, q, t), err |-> r.err, ret |-> r.ret]
       /\ UNCHANGED <<c_size, c_list, s_size, s_list, s_qcache, opq, opt, mat, heap>>

\* A client calls SetComposition.generate_all_setcompositions(n)
CallGenerateAllSetcompositions(n) ==
    \E r \in {generate_all_setcompositions(n, [size |-> s_size, list |-> s_list])} :
       /\ s_size' = r.st.size
       /\ s_list' = r.st.list
       /\ call' = [op |-> "SetComposition.generate_all_setcompositions",
                   args |-> <<n>>, hit |-> (n < s_size), err |-> r.err, ret |-> r.ret]
       /\ UNCHANGED <<c_size, c_list, c_qcache, s_qcache, opq, opt, mat, heap>>

(***************************************************************************)
(* The enumerations: a client calls the two generators with any size.      *)
(***************************************************************************)
GenComp == \E n \in -1..MaxGenComp : CallGenerateAllComposition(n)

GenSC == \E n \in -1..MaxGenSC : CallGenerateAllSetcompositions(n)

InitGen == ImportedState /\ opq = None /\ opt = None

NextGen == GenComp \/ GenSC

SpecGen == InitGen /\ [][NextGen]_vars

\* 2^k
RECURSIVE Pow2(_)
Pow2(k) == IF k = 0 THEN 1 ELSE 2 * Pow2(k - 1)

\* no element occurs twice in the list
NoRepeat(l) == \A i, j \in 1..Len(l) : l[i] = l[j] => i = j

\* The set compositions of {1..n}, each named by the map from an element to the
\* index of its block (the definition, not the program's enumeration of them)
SetCompositionOfMap(f, k) ==
    LET parts == [i \in 1..k |-> SortSet({e \in DOMAIN f : f[e] = i})]
    IN [parts |-> parts, ground_set |-> SortSet(DOMAIN f)]

SetCompositionsOf(n) ==
    UNION {{SetCompositionOfMap(f, k) :
               f \in {g \in [1..n -> 1..k] : \A i \in 1..k : \E e \in 1..n : g[e] = i}} :
           k \in 0..n}

\* C1: for every n >= 0, generate_all_composition(n) returns, fresh or from the
\* cache, a list holding every composition of n exactly once and nothing else;
\* its length is 1 for n = 0 and 2^(n-1) for n >= 1.
C1_GenerateAllComposition ==
    (call.op = "Composition.generate_all_composition" /\ call.args[1] >= 0) =>
        /\ call.err = "none"
        /\ Range(call.ret) = CompositionsOf(call.args[1])
        /\ NoRepeat(call.ret)
        /\ Len(call.ret) = IF call.args[1] = 0 THEN 1 ELSE Pow2(call.args[1] - 1)

\* a list above the pregenerated sizes was computed by one call and is served
\* from the cache by a later one
C1_Witness ==
    /\ call.op = "Composition.generate_all_composition"
    /\ call.args[1] > Composition_PREGEN
    /\ call.hit
    /\ Len(call.ret) = Pow2(call.args[1] - 1)

\* C2: for every n >= 0, generate_all_setcompositions(n) returns a list holding
\* every set composition of {1..n} exactly once and nothing else; its length
\* is 1, 1, 3, 13 for n = 0, 1, 2, 3.
C2_GenerateAllSetcompositions ==
    (call.op = "SetComposition.generate_all_setcompositions" /\ call.args[1] >= 0) =>
        /\ call.err = "none"
        /\ Range(call.ret) = SetCompositionsOf(call.args[1])
        /\ NoRepeat(call.ret)
        /\ call.args[1] <= 3 => Len(call.ret) = <<1, 1, 3, 13>>[call.args[1] + 1]

\* the list of a size above the pregenerated ones, computed by the call
C2_Witness ==
    /\ call.op = "SetComposition.generate_all_setcompositions"
    /\ call.args[1] > SetComposition_PREGEN
    /\ ~call.hit
    /\ call.err = "none"
    /\ Len(call.ret) = Cardinality(SetCompositionsOf(call.args[1]))

(***************************************************************************)
(* Compositions: a client multiplies the two it holds.                     *)
(***************************************************************************)
\* The client multiplies the two compositions it holds, in one order
CompShuffleQT == CallCompositionQuasiShuffles(opq, opt)

\* ... and in the other order
CompShuffleTQ == CallCompositionQuasiShuffles(opt, opq)

InitComp ==
    /\ ImportedState
    /\ opq \in CompositionsUpTo(MaxCompQ)
    /\ opt \in CompositionsUpTo(MaxCompT)

NextComp == CompShuffleQT \/ CompShuffleTQ

SpecComp == InitComp /\ [][NextComp]_vars

\* The quasi-shuffle of two words by its recurrence, as a bag of words: the
\* letters are positive integers and two letters taken together are added.
PrependBag(x, B) == [w \in {<<x>> \o k : k \in DOMAIN B} |-> B[Tail(w)]]

RECURSIVE CompRecurrence(_, _)
CompRecurrence(q, t) ==
    IF q = <<>> THEN SetToBag({t})
    ELSE IF t = <<>> THEN SetToBag({q})
    ELSE PrependBag(q[1], CompRecurrence(Tail(q), t))
         (+) PrependBag(t[1], CompRecurrence(q, Tail(t)))
         (+) PrependBag(q[1] + t[1], CompRecurrence(Tail(q), Tail(t)))

\* the bag as a coefficient map keyed by the canonical strings
CompCoefficientMap(B) ==
    [k \in {Composition_str(w) : w \in DOMAIN B} |->
        B[CHOOSE w \in DOMAIN B : Composition_str(w) = k]]

\* C3: Composition.quasi_shuffles(q, t) returns exactly the coefficient map of
\* the recurrence (coefficients of equal compositions summed, an empty operand
\* giving the other operand with coefficient 1), every coefficient is a
\* positive integer, (1) and (1) give {"(1,1)": 2, "(2)": 1}, and the map is
\* the same whether it is computed or served from the cache.
C3_CompositionQuasiShuffles ==
    call.op = "Composition.quasi_shuffles" =>
        /\ call.err = "none"
        /\ DictOf(call.ret)
               = CompCoefficientMap(CompRecurrence(call.args[1], call.args[2]))
        /\ \A i \in 1..Len(call.ret) : call.ret[i][2] \in Nat \ {0}
        /\ call.args = << <<1>>, <<1>> >> =>
               DictOf(call.ret)
                   = (<<"(", "1", ",", "1", ")">> :> 2) @@ (<<"(", "2", ")">> :> 1)

\* a product above the pregenerated sizes, with a repeated key, was computed by
\* one call and is served from the cache by a later one
C3_Witness ==
    /\ call.op = "Composition.quasi_shuffles"
    /\ SeqSum(call.args[1]) > Composition_PREGEN
    /\ call.hit
    /\ \E i \in 1..Len(call.ret) : call.ret[i][2] > 1

(***************************************************************************)
(* Set compositions: a client multiplies the two it holds.                 *)
(***************************************************************************)
\* Whether SetComposition.quasi_shuffles(q, t) is answered by the cache
SCCacheHit(cache, q, t) ==
    /\ ~SCGroundSetsOverlap(q, t)
    /\ Len(q.ground_set) > 0
    /\ Len(t.ground_set) > 0
    /\ quasi_shuffles_fetch_from_cache(q, t, cache).found

\* A client calls SetComposition.quasi_shuffles(q, t)
CallSetCompositionQuasiShuffles(q, t) ==
    \E r \in {SetComposition_quasi_shuffles(q, t, s_qcache)} :
       /\ s_qcache' = r.cache
       /\ call' = [op |-> "SetComposition.quasi_shuffles", args |-> <<q, t>>,
                   hit |-> SCCacheHit(s_qcache, q, t), err |-> r.err, ret |-> r.ret]
       /\ UNCHANGED <<c_size, c_list, c_qcache, s_size, s_list, opq, opt, mat, heap>>

SCShuffleQT == CallSetCompositionQuasiShuffles(opq, opt)

SCShuffleTQ == CallSetCompositionQuasiShuffles(opt, opq)

\* the set composition with every label raised by o
Shifted(sc, o) ==
    SetComposition_relabel_dict(sc, [e \in Range(sc.ground_set) |-> e + o]).sc

\* The first operand is a set composition of {1..n}, n up to one above the
\* pregenerated sizes, shifted; the second is empty or a single label.
InitSC ==
    /\ ImportedState
    /\ opq \in {Shifted(sc, o) :
                   sc \in UNION {SetCompositionsOf(n) :
                                    n \in 0..(SetComposition_PREGEN + 1)},
                   o \in 0..MaxShiftQ}
    /\ opt \in {EmptySC} \cup {SetComposition_from_list(<< <<x>> >>).sc : x \in 1..MaxLabel}

NextSC == SCShuffleQT \/ SCShuffleTQ

SpecSC == InitSC /\ [][NextSC]_vars

\* The quasi-shuffle of two words of blocks by its recurrence, as a bag of
\* words: two blocks taken together are united.
RECURSIVE SCRecurrence(_, _)
SCRecurrence(q, t) ==
    IF q = <<>> THEN SetToBag({t})
    ELSE IF t = <<>> THEN SetToBag({q})
    ELSE PrependBag(q[1], SCRecurrence(Tail(q), t))
         (+) PrependBag(t[1], SCRecurrence(q, Tail(t)))
         (+) PrependBag(SortSet(Range(q[1]) \cup Range(t[1])),
                        SCRecurrence(Tail(q), Tail(t)))

\* the canonical string of a word of blocks
BlocksStr(w) == SetComposition_str([parts |-> w, ground_set |-> <<>>])

\* the bag as a coefficient map keyed by the canonical strings
SCCoefficientMap(B) ==
    [k \in {BlocksStr(w) : w \in DOMAIN B} |->
        B[CHOOSE w \in DOMAIN B : BlocksStr(w) = k]]

\* some label of q is a label of t (the ground sets are not disjoint)
ShareLabel(q, t) == \E e \in Range(q.ground_set) : e \in Range(t.ground_set)

\* C4: for set compositions q, t with disjoint ground sets, of any size and
\* with any positive labels, SetComposition.quasi_shuffles(q, t) returns
\* without raising, and returns exactly the coefficient map of the recurrence.
C4_SetCompositionQuasiShuffles ==
    (/\ call.op = "SetComposition.quasi_shuffles"
     /\ ~ShareLabel(call.args[1], call.args[2])) =>
        /\ call.err = "none"
        /\ DictOf(call.ret) = SCCoefficientMap(SCRecurrence(call.args[1].parts,
                                                            call.args[2].parts))

\* Two relabelings of the labels of q and t: onto 1..|q|+|t| in the order of
\* q.ground_set then t.ground_set, and every label raised by one
SCRelabelings(q, t) ==
    LET both == q.ground_set \o t.ground_set
    IN { [e \in Range(both) |-> CHOOSE i \in 1..Len(both) : both[i] = e],
         [e \in Range(both) |-> e + 1] }

\* C5: for disjoint q, t and an injective relabeling s of their labels,
\* quasi_shuffles(q.relabel(s), t.relabel(s)) is quasi_shuffles(q, t) with every
\* key relabeled by s and its coefficient kept (the two calls made one after
\* the other by the caller that holds q and t).
C5_RelabelEquivariant ==
    ~ShareLabel(opq, opt) =>
        \A s \in SCRelabelings(opq, opt) :
            \A r \in {SetComposition_quasi_shuffles(opq, opt, s_qcache)} :
                \A rs \in {SetComposition_quasi_shuffles(
                               SetComposition_relabel_dict(opq, s).sc,
                               SetComposition_relabel_dict(opt, s).sc, r.cache)} :
                    /\ r.err = "none"
                    /\ rs.err = "none"
                    /\ DictOf(rs.ret) = DictOf(SCRelabelKeys(r.ret, s).ret)

\* quasi_shuffles(a, b) == quasi_shuffles(b, a) for the compositions a, b of the
\* block sizes of the two operands held: the two calls made one after the other
CompCommutes ==
    \A r1 \in {Composition_quasi_shuffles(SetComposition_alpha(opq).parts,
                                          SetComposition_alpha(opt).parts, c_qcache)} :
        \A r2 \in {Composition_quasi_shuffles(SetComposition_alpha(opt).parts,
                                              SetComposition_alpha(opq).parts, r1.cache)} :
            r1.err = "none" /\ r2.err = "none" /\ DictOf(r1.ret) = DictOf(r2.ret)

\* quasi_shuffles(q, t) == quasi_shuffles(t, q) for the set compositions held
SCCommutes ==
    ~ShareLabel(opq, opt) =>
        \A r1 \in {SetComposition_quasi_shuffles(opq, opt, s_qcache)} :
            \A r2 \in {SetComposition_quasi_shuffles(opt, opq, r1.cache)} :
                r1.err = "none" /\ r2.err = "none" /\ DictOf(r1.ret) = DictOf(r2.ret)

\* C6: the quasi-shuffle is commutative as a coefficient map, for compositions
\* and for set compositions with disjoint ground sets.
C6_Commutative == CompCommutes /\ SCCommutes

\* C7: when the ground sets of q and t share an element, the call fails (with
\* the TypeError of lines 274 and 277) and the quasi-shuffle cache is left as
\* it was.
C7_OverlapFails ==
    [][(/\ call'.op = "SetComposition.quasi_shuffles"
        /\ ShareLabel(call'.args[1], call'.args[2]))
       => (call'.err = "TypeError" /\ s_qcache' = s_qcache)]_vars

\* the call was made with a second operand whose label is a label of the first
C7_Witness ==
    /\ call.op = "SetComposition.quasi_shuffles"
    /\ ShareLabel(call.args[1], call.args[2])
    /\ call.err = "TypeError"

(***************************************************************************)
(* Matroids: a client constructs, extends and relabels.                    *)
(***************************************************************************)
\* the caller holds the instance the call returned, nothing if it raised
MatroidCall(op, args, r) ==
    /\ mat' = IF r.err = "none" THEN <<r.m>> ELSE <<>>
    /\ call' = [op |-> op, args |-> args, hit |-> FALSE, err |-> r.err, ret |-> None]
    /\ UNCHANGED <<c_size, c_list, c_qcache, s_size, s_list, s_qcache, opq, opt, heap>>

\* the families of at most k subsets of S
FamiliesUpTo(S, k) == {F \in SUBSET (SUBSET S) : Cardinality(F) <= k}

\* Matroid(ground_set, bases_sets) with the arguments the caller holds
Construct == MatroidCall("Matroid", <<opq, opt>>, Matroid_init(opq, opt))

\* The caller extends the instance the constructor returned: by nothing, by an
\* element of the ground set, by one new element, by two new elements
Extend ==
    /\ call.op = "Matroid" /\ mat # <<>>
    /\ \E elements \in {<<>>, <<1>>, <<MaxElem + 1>>, <<MaxElem + 1, MaxElem + 2>>} :
           MatroidCall("Matroid.extend", <<elements>>, Matroid_extend(mat[1], elements))

\* the dicts given to relabel: a rotation and a transposition of 1..MaxElem, a
\* map that is not injective, and a dict that lacks the key MaxElem
Bijections ==
    { [i \in 1..MaxElem |-> (i % MaxElem) + 1],
      [i \in 1..MaxElem |-> IF i = 1 THEN 2 ELSE IF i = 2 THEN 1 ELSE i],
      [i \in 1..MaxElem |-> IF i = 1 THEN 2 ELSE i],
      [i \in 1..(MaxElem - 1) |-> i] }

\* The caller relabels the instance the constructor returned
Relabel ==
    /\ call.op = "Matroid" /\ mat # <<>>
    /\ \E bijection \in Bijections :
           MatroidCall("Matroid.relabel", <<bijection>>, Matroid_relabel(mat[1], bijection))

\* The caller holds a ground set {1..n}, n one below MaxElem or MaxElem, and a
\* family of sets of elements
InitMat ==
    /\ ImportedState
    /\ opq \in {1..n : n \in (MaxElem - 1)..MaxElem}
    /\ opt \in FamiliesUpTo(1..MaxElem, MaxBases)

NextMat == Construct \/ Extend \/ Relabel

SpecMat == InitMat /\ [][NextMat]_vars

\* the basis exchange axiom fails for the family
ExchangeViolated(bases_sets) ==
    \E B1, B2 \in bases_sets : B1 # B2 /\
        \E i \in B2 \ B1 : \A j \in B1 \ B2 : ((B2 \cup {j}) \ {i}) \notin bases_sets

\* C8: the construction fails if and only if bases_sets is empty or the basis
\* exchange axiom is violated (so {{1,2},{3,4}} is rejected).
C8_ConstructionFailsIffInvalid ==
    call.op = "Matroid" =>
        (call.err # "none" <=> (call.args[2] = {} \/ ExchangeViolated(call.args[2])))

\* C9 as stated: Matroid({1,2,3}, {{1,2}}) fails with an axiom-violation error.
C9_SingleBasisFails ==
    (call.op = "Matroid" /\ call.args = <<{1, 2, 3}, {{1, 2}}>>) => call.err # "none"

\* C9, amended: Matroid({1,2,3}, {{1,2}}) returns the matroid with the single
\* basis {1,2}: no pair of distinct bases exists, so the exchange check of
\* lines 41-59 has nothing to test.
C9_SingleBasisAccepted ==
    (call.op = "Matroid" /\ call.args = <<{1, 2, 3}, {{1, 2}}>>) =>
        /\ call.err = "none"
        /\ mat = <<[ground_set |-> {1, 2, 3}, bases_sets |-> {{1, 2}}]>>

\* the construction was called with ground set {1,2,3} and the basis {1,2}
C9_Witness ==
    /\ call.op = "Matroid"
    /\ call.args = <<{1, 2, 3}, {{1, 2}}>>
    /\ mat # <<>>

\* C10: every Matroid instance returned by the constructor, extend or relabel
\* has a non-empty basis family, every basis a subset of the ground set, all
\* bases of the same cardinality.
C10_ReturnedMatroidWellFormed ==
    mat # <<>> =>
        /\ mat[1].bases_sets # {}
        /\ \A B \in mat[1].bases_sets : B \subseteq mat[1].ground_set
        /\ \A B1, B2 \in mat[1].bases_sets : Cardinality(B1) = Cardinality(B2)

(***************************************************************************)
(* stable_matroids_setcompositions: the caller holds a matroid and a set    *)
(* composition and asks whether the pair is stable.                        *)
(***************************************************************************)
\* line 9, "len([i for i in pi if i in base])"
CountIn(pi, base) == Cardinality({j \in 1..Len(pi) : pi[j] \in base})

\* (a faulty score, for comparison: the index of the block is left out)
StableScoreUnweighted(opi, base) ==
    SeqSum([k \in 1..Len(opi.parts) |-> CountIn(opi.parts[k], base)])

\* line 9 for one base: the sum over (index, pi) in enumerate(opi.parts)
StableScore(opi, base) ==
    SeqSum([k \in 1..Len(opi.parts) |-> CountIn(opi.parts[k], base) * (k - 1)])

\* max of a non-empty collection of ints
MaxOf(S) == CHOOSE x \in S : \A y \in S : y <= x

\* (a faulty test, for comparison: "scores.count(max(scores)) >= 1")
CountOfMaxAtLeastOne(scores) ==
    Cardinality({b \in DOMAIN scores : scores[b] = MaxOf({scores[c] : c \in DOMAIN scores})}) >= 1

\* line 10: "scores.count(max(scores)) == 1", scores holding one score per base
CountOfMaxIsOne(scores) ==
    Cardinality({b \in DOMAIN scores : scores[b] = MaxOf({scores[c] : c \in DOMAIN scores})}) = 1

\* stable_matroids_setcompositions(matroid, opi); returns [err, ret].  max() of
\* an empty list raises ValueError.
stable_matroids_setcompositions(matroid, opi) ==
    IF matroid.bases_sets = {} THEN [err |-> "ValueError", ret |-> None]
    ELSE [err |-> "none",
          ret |-> CountOfMaxIsOne([base \in matroid.bases_sets |->
                                      StableScore(opi, base)])]

\* The caller calls stable_matroids_setcompositions(opq, opt).  The function
\* assigns to no attribute of its arguments.
CallStable ==
    \E r \in {stable_matroids_setcompositions(opq, opt)} :
       /\ call' = [op |-> "stable_matroids_setcompositions", args |-> <<opq, opt>>,
                   hit |-> FALSE, err |-> r.err, ret |-> r.ret]
       /\ UNCHANGED <<c_size, c_list, c_qcache, s_size, s_list, s_qcache, opq, opt,
                      mat, heap>>

\* the ground set of the matroids held
StableGround == {1, 2, 3}

\* the bases of the uniform matroid of rank r on S
UniformBases(S, r) == {B \in SUBSET S : Cardinality(B) = r}

\* The matroid held was returned by Matroid(StableGround, F), F a family of at
\* most MaxBases subsets or the bases of a uniform matroid; the set composition
\* held is one of {1..n}, n up to the size of StableGround.
InitStable ==
    /\ ImportedState
    /\ opq \in {r.m : r \in {s \in {Matroid_init(StableGround, F) :
                                      F \in FamiliesUpTo(StableGround, MaxBases)
                                            \cup {UniformBases(StableGround, k) :
                                                     k \in 0..Cardinality(StableGround)}} :
                                 s.err = "none"}}
    /\ opt \in UNION {SetCompositionsOf(n) : n \in 0..Cardinality(StableGround)}

NextStable == CallStable

SpecStable == InitStable /\ [][NextStable]_vars

\* the 0-based index of the block of opi that contains i
BlockIndex(opi, i) == (CHOOSE k \in 1..Len(opi.parts) : i \in Range(opi.parts[k])) - 1

\* score(B): the sum over i in B of the index of the block containing i
Score(opi, B) == SumOver(B, [i \in B |-> BlockIndex(opi, i)])

\* exactly one basis attains the maximum score
UniqueArgMax(matroid, opi) ==
    \E B \in matroid.bases_sets :
        \A C \in matroid.bases_sets \ {B} : Score(opi, C) < Score(opi, B)

\* every element of a basis is in a block of opi
CoversBases(matroid, opi) ==
    \A B \in matroid.bases_sets : B \subseteq Range(opi.ground_set)

\* the uniform matroid of rank 2 on {1,2,3}
U23 == [ground_set |-> {1, 2, 3}, bases_sets |-> {{1, 2}, {1, 3}, {2, 3}}]

\* the set composition with the given blocks
Blocks(parts) == SetComposition_from_list(parts).sc

\* what C11 states apart from the value for (3|1,2)
StableContract ==
    /\ call.err = "none"
    /\ CoversBases(call.args[1], call.args[2]) =>
           (call.ret <=> UniqueArgMax(call.args[1], call.args[2]))
    /\ call.args = <<U23, Blocks(<< <<1, 2, 3>> >>)>> => call.ret = FALSE
    /\ call.args = <<U23, Blocks(<< <<1>>, <<2>>, <<3>> >>)>> => call.ret = TRUE
    /\ opq = call.args[1]
    /\ opt = call.args[2]

\* C11 as stated: stable_matroids_setcompositions returns True iff exactly one
\* basis attains the maximum score; on the uniform matroid of rank 2 on {1,2,3}
\* it returns False for (1,2,3), False for (3|1,2), True for (1|2|3); the call
\* changes neither argument.
C11_StableAsStated ==
    call.op = "stable_matroids_setcompositions" =>
        /\ StableContract
        /\ call.args = <<U23, Blocks(<< <<3>>, <<1, 2>> >>)>> => call.ret = FALSE

\* C11, amended: the same, with True for (3|1,2): the scores are {1,2}: 2,
\* {1,3}: 1, {2,3}: 1, so the maximum is attained by {1,2} alone.
C11_Stable ==
    call.op = "stable_matroids_setcompositions" =>
        /\ StableContract
        /\ call.args = <<U23, Blocks(<< <<3>>, <<1, 2>> >>)>> => call.ret = TRUE

\* the call was made with the uniform matroid and (3|1,2)
C11_Witness ==
    /\ call.op = "stable_matroids_setcompositions"
    /\ call.args = <<U23, Blocks(<< <<3>>, <<1, 2>> >>)>>
    /\ call.ret = TRUE

\* C12: when an element of the ground set that lies in a basis belongs to no
\* block of opi, the call signals an error instead of returning a boolean.
C12_UncoveredElementFails ==
    (/\ call.op = "stable_matroids_setcompositions"
     /\ \E e \in call.args[1].ground_set :
            /\ \E B \in call.args[1].bases_sets : e \in B
            /\ e \notin Range(call.args[2].ground_set))
        => call.err # "none"

(***************************************************************************)
(* The formal sums.  A QSymFunction or NCQSymFunction is the record of its  *)
(* class and of the address, in heap, of the dict its attribute            *)
(* coefficients refers to: two instances may refer to the same dict.       *)
(* An operation returns [err, heap, obj], and the quasi-shuffle cache where *)
(* it uses it.  The loops over a dict run over its keys in the order of the *)
(* dict.                                                                   *)
(***************************************************************************)
\* the loop of _addTo on the dicts themselves, from the i-th key of g on, in
\* the order of the dict g: "if not tstr in self.coefficients:
\* self.coefficients[tstr] = 0" and then
\* "self.coefficients[tstr] += g.coefficients[tstr]"
RECURSIVE DictAddToLoop(_, _, _)
DictAddToLoop(a, g, i) ==
    IF i > Len(g) THEN a ELSE DictAddToLoop(DictAdd(a, g[i][1], g[i][2]), g, i + 1)

DictAddTo(a, g) == DictAddToLoop(a, g, 1)

\* (a faulty loop, for comparison: every key of the dict is multiplied twice)
DictTimesTwice(a, keys, scalar) ==
    List([i \in 1..Len(a) |->
             <<a[i][1], IF a[i][1] \in keys THEN a[i][2] * scalar * scalar ELSE a[i][2]>>])

\* the loop of _scalarMultiple: "for tstr in self.coefficients:
\* answer.coefficients[tstr] *= scalar", a the dict of answer and keys the keys
\* of self
DictTimes(a, keys, scalar) ==
    List([i \in 1..Len(a) |->
             <<a[i][1], IF a[i][1] \in keys THEN a[i][2] * scalar ELSE a[i][2]>>])

\* lines 35-45 of quasisymmetric.py, on a dict with str keys and int values:
\* Composition(key) for every key, in the order of the dict (a numeral is what
\* Python reads as an int); the exception of the first key that raises one,
\* "none" if none does
QSymFunction_validate(item) ==
    LET bad == {i \in 1..Len(item) : Composition_from_str(item[i][1]).err # "none"}
    IN IF bad = {} THEN "none"
       ELSE Composition_from_str(item[CHOOSE i \in bad : \A j \in bad : i <= j][1]).err

\* QSymFunction(monomial_basis = item), item a dict: line 26 copies it, in its
\* order, to a new dict
QSymFunction_init(h, item) ==
    [err |-> QSymFunction_validate(item), heap |-> Append(h, item),
     obj |-> [cls |-> "QSymFunction", coefficients |-> Len(h) + 1]]

\* QSymFunction._addTo(g): the dict of self is changed
QSymFunction_addTo(h, self, g) ==
    [h EXCEPT ![self.coefficients] = DictAddTo(@, h[g.coefficients])]

\* line 56, the constructor having returned n (or raised)
QSymAddToNew(n, g) ==
    IF n.err # "none" THEN n
    ELSE [err |-> "none", heap |-> QSymFunction_addTo(n.heap, n.obj, g), obj |-> n.obj]

\* QSymFunction.__add__
QSymFunction_add(h, self, g) ==
    QSymAddToNew(QSymFunction_init(h, h[self.coefficients]), g)

\* lines 61-62, the constructor having returned n (or raised)
QSymTimesNew(n, self, scalar) ==
    IF n.err # "none" THEN n
    ELSE [err |-> "none",
          heap |-> [n.heap EXCEPT ![n.obj.coefficients] =
                       DictTimes(@, KeySet(n.heap[self.coefficients]), scalar)],
          obj |-> n.obj]

\* QSymFunction._scalarMultiple
QSymFunction_scalarMultiple(h, self, scalar) ==
    QSymTimesNew(QSymFunction_init(h, h[self.coefficients]), self, scalar)



\* The state of the loops of QSymFunction.__mul__: [err, heap, cache, obj], obj
\* being answer.  The loops end at the first exception.
QSymMulFail(err, st, cache) ==
    [err |-> err, heap |-> st.heap, cache |-> cache, obj |-> st.obj]

\* (a faulty step, for comparison: the terms of the product of one pair
\* replace the coefficients answer already has for their keys)
RECURSIVE DictOverwriteLoop(_, _, _)
DictOverwriteLoop(a, g, i) ==
    IF i > Len(g) THEN a ELSE DictOverwriteLoop(DictSet(a, g[i][1], g[i][2]), g, i + 1)

QSymMulAddOverwrite(sm, st, cache) ==
    IF sm.err # "none" THEN QSymMulFail(sm.err, st, cache)
    ELSE [err |-> "none",
          heap |-> [sm.heap EXCEPT ![st.obj.coefficients] =
                       DictOverwriteLoop(@, sm.heap[sm.obj.coefficients], 1)],
          cache |-> cache, obj |-> st.obj]

\* line 72: "answer._addTo(...)", _scalarMultiple having returned sm (or raised)
QSymMulAdd(sm, st, cache) ==
    IF sm.err # "none" THEN QSymMulFail(sm.err, st, cache)
    ELSE [err |-> "none", heap |-> QSymFunction_addTo(sm.heap, st.obj, sm.obj),
          cache |-> cache, obj |-> st.obj]

\* line 72: "QSymFunction(...)._scalarMultiple(coeff)", the constructor having
\* returned n (or raised)
QSymMulScale(n, st, cache, coeff) ==
    IF n.err # "none" THEN QSymMulFail(n.err, st, cache)
    ELSE QSymMulAdd(QSymFunction_scalarMultiple(n.heap, n.obj, coeff), st, cache)

\* line 72: Composition.quasi_shuffles(t, q) returned r (or raised)
QSymMulShuffled(r, st, coeff) ==
    IF r.err # "none" THEN QSymMulFail(r.err, st, r.cache)
    ELSE QSymMulScale(QSymFunction_init(st.heap, r.ret), st, r.cache, coeff)

\* lines 70-72 for one pair, t being the Composition of tstr and
\* Composition(qstr) having returned q (or raised)
QSymMulPair(st, t, q, coeff) ==
    IF q.err # "none" THEN QSymMulFail(q.err, st, st.cache)
    ELSE QSymMulShuffled(Composition_quasi_shuffles(t.parts, q.parts, st.cache),
                         st, coeff)

\* lines 69-72 for the key tstr, from the j-th key of g on, qkeys being the
\* keys of g in the order of its dict
RECURSIVE QSymMulInner(_, _, _, _, _, _, _)
QSymMulInner(qkeys, j, st, t, tstr, self, g) ==
    IF st.err # "none" \/ j > Len(qkeys) THEN st
    ELSE QSymMulInner(qkeys, j + 1,
                      QSymMulPair(st, t, Composition_from_str(qkeys[j]),
                                  DictGet(st.heap[g.coefficients], qkeys[j])
                                  * DictGet(st.heap[self.coefficients], tstr)),
                      t, tstr, self, g)

\* lines 68-72 for the key tstr, "t = Composition(tstr)" having returned t (or
\* raised): line 68 runs whether g has a key or not
QSymMulKey(st, t, tstr, self, g) ==
    IF t.err # "none" THEN QSymMulFail(t.err, st, st.cache)
    ELSE QSymMulInner(DictKeys(st.heap[g.coefficients]), 1, st, t, tstr, self, g)

\* lines 67-72 from the i-th key of self on, tkeys being the keys of self in
\* the order of its dict
RECURSIVE QSymMulLoop(_, _, _, _, _)
QSymMulLoop(tkeys, i, st, self, g) ==
    IF st.err # "none" \/ i > Len(tkeys) THEN st
    ELSE QSymMulLoop(tkeys, i + 1,
                     QSymMulKey(st, Composition_from_str(tkeys[i]), tkeys[i], self, g),
                     self, g)

\* line 66: "answer = QSymFunction()" returned n
QSymMulStart(n, cache) ==
    [err |-> n.err, heap |-> n.heap, cache |-> cache, obj |-> n.obj]

\* QSymFunction.__mul__ from the quasi-shuffle cache; returns [err, heap, cache, obj]
QSymFunction_mul(h, self, g, cache) ==
    QSymMulLoop(DictKeys(h[self.coefficients]), 1,
                QSymMulStart(QSymFunction_init(h, EmptyDict), cache), self, g)

\* NCQSymFunction(monomial_basis = item), item the dict at address a: line 22
\* keeps the dict itself
NCQSymFunction_init(h, a) ==
    [err |-> "none", heap |-> h,
     obj |-> [cls |-> "NCQSymFunction", coefficients |-> a]]

\* NCQSymFunction(): line 26, a new empty dict
NCQSymFunction_init_empty(h) ==
    [err |-> "none", heap |-> Append(h, EmptyDict),
     obj |-> [cls |-> "NCQSymFunction", coefficients |-> Len(h) + 1]]

\* NCQSymFunction._addTo(g): the dict of self is changed
NCQSymFunction_addTo(h, self, g) ==
    [h EXCEPT ![self.coefficients] = DictAddTo(@, h[g.coefficients])]

\* line 37, the constructor having returned n
NCQSymAddToNew(n, g) ==
    [err |-> "none", heap |-> NCQSymFunction_addTo(n.heap, n.obj, g), obj |-> n.obj]

\* NCQSymFunction.__add__
NCQSymFunction_add(h, self, g) ==
    NCQSymAddToNew(NCQSymFunction_init(h, self.coefficients), g)

\* lines 42-43, the constructor having returned n
NCQSymTimesNew(n, self, scalar) ==
    [err |-> "none",
     heap |-> [n.heap EXCEPT ![n.obj.coefficients] =
                  DictTimes(@, KeySet(n.heap[self.coefficients]), scalar)],
     obj |-> n.obj]

\* NCQSymFunction._scalarMultiple
NCQSymFunction_scalarMultiple(h, self, scalar) ==
    NCQSymTimesNew(NCQSymFunction_init(h, self.coefficients), self, scalar)

\* lines 48-51, "answer = NCQSymFunction()" having returned n: the first pass of
\* the inner loop evaluates the names t and q, which nothing binds, and raises
\* NameError
NCQSymMulLoop(n, self, g, cache) ==
    IF Len(n.heap[self.coefficients]) = 0 \/ Len(n.heap[g.coefficients]) = 0
    THEN [err |-> "none", heap |-> n.heap, cache |-> cache, obj |-> n.obj]
    ELSE [err |-> "NameError", heap |-> n.heap, cache |-> cache, obj |-> n.obj]

\* NCQSymFunction.__mul__; returns [err, heap, cache, obj]
NCQSymFunction_mul(h, self, g, cache) ==
    NCQSymMulLoop(NCQSymFunction_init_empty(h), self, g, cache)

\* The state of the loop of NCQSymFunction.comu: [err, heap, obj], obj being
\* answer.  The loop ends at the first exception.
ComuFail(err, st) == [err |-> err, heap |-> st.heap, obj |-> st.obj]

\* (a faulty step, for comparison: the term replaces the coefficient of its key)
ComuAddOverwrite(n, st) ==
    IF n.err # "none" THEN ComuFail(n.err, st)
    ELSE [err |-> "none",
          heap |-> [n.heap EXCEPT ![st.obj.coefficients] =
                       DictSet(@, n.heap[n.obj.coefficients][1][1],
                               n.heap[n.obj.coefficients][1][2])],
          obj |-> st.obj]

\* line 60: "answer._addTo(...)", the constructor having returned n (or raised)
ComuAdd(n, st) ==
    IF n.err # "none" THEN ComuFail(n.err, st)
    ELSE [err |-> "none", heap |-> QSymFunction_addTo(n.heap, st.obj, n.obj),
          obj |-> st.obj]

\* line 60: "QSymFunction(monomial_basis = {str(...alpha()): tcoeff})", alpha
\* having returned al (or raised)
ComuAlpha(al, st, tcoeff) ==
    IF al.err # "none" THEN ComuFail(al.err, st)
    ELSE ComuAdd(QSymFunction_init(st.heap, DictItem(Composition_str(al.parts), tcoeff)),
                 st)

\* line 60: "SetComposition(tstr).alpha()", the constructor having returned sc
\* (or raised)
ComuKey(sc, st, tcoeff) ==
    IF sc.err # "none" THEN ComuFail(sc.err, st)
    ELSE ComuAlpha(SetComposition_alpha(sc.sc), st, tcoeff)

\* lines 59-60 from key i on, keys being the keys of self in the order of its
\* dict
RECURSIVE NCQSymComuLoop(_, _, _, _)
NCQSymComuLoop(keys, i, st, self) ==
    IF st.err # "none" \/ i > Len(keys) THEN st
    ELSE NCQSymComuLoop(keys, i + 1,
                        ComuKey(SetComposition_from_str(keys[i]), st,
                                DictGet(st.heap[self.coefficients], keys[i])),
                        self)

\* NCQSymFunction.comu; returns [err, heap, obj]
NCQSymFunction_comu(h, self) ==
    NCQSymComuLoop(DictKeys(h[self.coefficients]), 1,
                   QSymFunction_init(h, EmptyDict), self)

(***************************************************************************)
(* Formal sums: the caller builds f and g on two dicts it holds, combines   *)
(* them, and reads the coefficients of each result.                        *)
(***************************************************************************)
\* the dicts with at most n keys, taken from keys in any order, and
\* coefficients from coeffs
DictsOver(keys, n, coeffs) ==
    UNION {{d \in [1..m -> keys \X coeffs] : \A i, j \in 1..m : d[i][1] = d[j][1] => i = j} :
           m \in 0..n}

\* the monomials of the dicts the caller holds, by class and operand:
\* compositions, and set compositions of {1, 2} and of {3, 4}
AlgWords(cls, operand) ==
    IF cls = "QSymFunction"
    THEN IF operand = 1 THEN {<<1>>, <<2>>, <<1, 1>>, <<3, 1>>}
         ELSE {<<>>, <<1>>, <<2>>}
    ELSE IF operand = 1
         THEN {<< <<1>>, <<2>> >>, << <<2>>, <<1>> >>, << <<1, 2>> >>}
         ELSE {<<>>, << <<3>> >>, << <<3, 4>> >>}

\* their keys
AlgKeys(cls, operand) ==
    IF cls = "QSymFunction"
    THEN {Composition_str(p) : p \in AlgWords(cls, operand)}
    ELSE {SetComposition_str(Blocks(p)) : p \in AlgWords(cls, operand)}

AlgClasses == {"QSymFunction", "NCQSymFunction"}

\* the coefficients of the dicts the caller holds
AlgCoeffs == {-1} \cup (1..MaxCoeff)

\* cls(monomial_basis = the dict at address a)
AlgNew(cls, h, a) ==
    IF cls = "QSymFunction" THEN QSymFunction_init(h, h[a])
    ELSE NCQSymFunction_init(h, a)

\* The caller builds f on the first dict it holds and g on the second; from
\* then on it holds f and g, and the two dicts at the addresses 1 and 2.
AlgConstruct ==
    /\ heap = <<>>
    /\ \E f \in {AlgNew(opq.cls, <<opq.item, opt.item>>, 1)} :
          \E g \in {AlgNew(opt.cls, f.heap, 2)} :
             /\ f.err = "none" /\ g.err = "none"
             /\ heap' = g.heap
             /\ opq' = f.obj
             /\ opt' = g.obj
             /\ call' = [op |-> "__init__", args |-> <<opq.cls, opq.item, opt.item>>,
                         hit |-> FALSE, err |-> "none", ret |-> None]
    /\ UNCHANGED <<c_size, c_list, c_qcache, s_size, s_list, s_qcache, mat>>

RECURSIVE SumAbs(_, _)
SumAbs(d, i) ==
    IF i > Len(d) THEN 0
    ELSE (IF d[i][2] < 0 THEN -d[i][2] ELSE d[i][2]) + SumAbs(d, i + 1)

\* the absolute values of the coefficients of each dict held sum to MaxHeld at most
HeldBounded == \A a \in DOMAIN heap : SumAbs(heap[a], 1) <= MaxHeld

\* An operation on formal sums returned r (or raised): the caller reads the
\* coefficients of the result and keeps the dicts it held before the call.
AlgReturn(op, args, r, cache) ==
    /\ heap' = SubSeq(r.heap, 1, Len(heap))
    /\ c_qcache' = cache
    /\ call' = [op |-> op, args |-> args, hit |-> FALSE, err |-> r.err,
                ret |-> IF r.err = "none" THEN r.heap[r.obj.coefficients] ELSE None]
    /\ UNCHANGED <<c_size, c_list, s_size, s_list, s_qcache, opq, opt, mat>>

\* h = f + g
AlgAdd ==
    /\ heap # <<>> /\ HeldBounded
    /\ AlgReturn("__add__",
                 <<opq.cls, heap[opq.coefficients], heap[opt.coefficients]>>,
                 IF opq.cls = "QSymFunction" THEN QSymFunction_add(heap, opq, opt)
                 ELSE NCQSymFunction_add(heap, opq, opt),
                 c_qcache)

\* h = f._scalarMultiple(k)
AlgScalarMultiple ==
    /\ heap # <<>> /\ HeldBounded
    /\ \E k \in {-1, 0, MaxScalar} :
          AlgReturn("_scalarMultiple", <<opq.cls, heap[opq.coefficients], k>>,
                    IF opq.cls = "QSymFunction"
                    THEN QSymFunction_scalarMultiple(heap, opq, k)
                    ELSE NCQSymFunction_scalarMultiple(heap, opq, k),
                    c_qcache)

\* the product x * y returned r (or raised)
AlgMulReturn(x, y, r) ==
    AlgReturn("__mul__", <<x.cls, heap[x.coefficients], heap[y.coefficients]>>, r,
              r.cache)

\* h = f * g or h = g * f
AlgMul ==
    /\ heap # <<>> /\ HeldBounded
    /\ \E p \in {<<opq, opt>>, <<opt, opq>>} :
          AlgMulReturn(p[1], p[2],
                       IF opq.cls = "QSymFunction"
                       THEN QSymFunction_mul(heap, p[1], p[2], c_qcache)
                       ELSE NCQSymFunction_mul(heap, p[1], p[2], c_qcache))

\* h = f.comu(), f an NCQSymFunction
AlgComu ==
    /\ heap # <<>> /\ HeldBounded
    /\ opq.cls = "NCQSymFunction"
    /\ AlgReturn("comu", <<opq.cls, heap[opq.coefficients]>>,
                 NCQSymFunction_comu(heap, opq), c_qcache)

\* The caller holds two dicts, for formal sums of one class: the first with up
\* to MaxTerms keys, the second with at most one key, of positive coefficient.
InitAlg ==
    /\ ImportedState
    /\ \E cls \in AlgClasses :
          /\ opq \in {[cls |-> cls, item |-> d] :
                         d \in DictsOver(AlgKeys(cls, 1), MaxTerms, AlgCoeffs)}
          /\ opt \in {[cls |-> cls, item |-> d] :
                         d \in DictsOver(AlgKeys(cls, 2), 1, 1..MaxCoeff)}

NextAlg == AlgConstruct \/ AlgAdd \/ AlgScalarMultiple \/ AlgMul \/ AlgComu

SpecAlg == InitAlg /\ [][NextAlg]_vars

AlgOps == {"__add__", "_scalarMultiple", "__mul__", "comu"}

\* C13: addition, scalar multiplication, multiplication and comu on
\* QSymFunction and NCQSymFunction never change the coefficient map of an
\* operand: after the call, the coefficient maps of f and g, and the dicts
\* passed to their constructors, are what they were before it.
C13_OperandsUnchanged == [][call'.op \in AlgOps => heap' = heap]_heap

\* the word whose canonical string is the key k
CompWordOf(k) ==
    CHOOSE w \in AlgWords("QSymFunction", 1) \cup AlgWords("QSymFunction", 2) :
        Composition_str(w) = k

SCWordOf(k) ==
    CHOOSE w \in AlgWords("NCQSymFunction", 1) \cup AlgWords("NCQSymFunction", 2) :
        BlocksStr(w) = k

\* the coefficient of r in the sum over (t, q) of a[t] * b[q] * c, c the
\* coefficient maps of the products of the pairs
BilinearCoefficient(a, b, c, r) ==
    SumOver(DOMAIN c,
            [p \in DOMAIN c |->
                a[p[1]] * b[p[2]] * (IF r \in DOMAIN c[p] THEN c[p][r] ELSE 0)])

\* the bilinear extension, c being the coefficient maps of the products of the pairs
Bilinear(a, b, c) ==
    [r \in UNION {DOMAIN c[p] : p \in DOMAIN c} |-> BilinearCoefficient(a, b, c, r)]

\* the bilinear extension of the quasi-shuffle of compositions
CompBilinear(a, b) ==
    Bilinear(a, b,
             [p \in (DOMAIN a) \X (DOMAIN b) |->
                 CompCoefficientMap(CompRecurrence(CompWordOf(p[1]), CompWordOf(p[2])))])

\* the bilinear extension of the quasi-shuffle of set compositions
SCBilinear(a, b) ==
    Bilinear(a, b,
             [p \in (DOMAIN a) \X (DOMAIN b) |->
                 SCCoefficientMap(SCRecurrence(SCWordOf(p[1]), SCWordOf(p[2])))])

\* C14: for NCQSymFunctions f and g whose monomials have pairwise disjoint
\* ground sets, f * g returns the NCQSymFunction whose coefficients are the
\* bilinear extension of SetComposition.quasi_shuffles.
C14_NCQSymProduct ==
    (call.op = "__mul__" /\ call.args[1] = "NCQSymFunction") =>
        /\ call.err = "none"
        /\ DictOf(call.ret) = SCBilinear(DictOf(call.args[2]), DictOf(call.args[3]))

\* the coefficient map of the unit M_()
UnitMap == Composition_str(<<>>) :> 1

\* f * g and g * f, called one after the other, return equal coefficient maps
QSymCommutes ==
    \A r \in {QSymFunction_mul(heap, opq, opt, c_qcache)} :
        \A s \in {QSymFunction_mul(r.heap, opt, opq, r.cache)} :
            /\ r.err = "none" /\ s.err = "none"
            /\ DictOf(r.heap[r.obj.coefficients]) = DictOf(s.heap[s.obj.coefficients])

\* C15: for QSymFunctions f and g, f * g returns the QSymFunction whose
\* coefficients are the bilinear extension of Composition.quasi_shuffles;
\* f * g and g * f have equal coefficient maps, and the product with the unit
\* M_() on either side has the coefficient map of the other operand.
C15_QSymProduct ==
    (call.op = "__mul__" /\ call.args[1] = "QSymFunction") =>
        /\ call.err = "none"
        /\ DictOf(call.ret) = CompBilinear(DictOf(call.args[2]), DictOf(call.args[3]))
        /\ QSymCommutes
        /\ DictOf(call.args[3]) = UnitMap => DictOf(call.ret) = DictOf(call.args[2])
        /\ DictOf(call.args[2]) = UnitMap => DictOf(call.ret) = DictOf(call.args[3])

\* M_(1,1) + M_(2) was multiplied by M_(1): the pairs ((1,1), (1)) and
\* ((2), (1)) both give (2,1) and (1,2), whose coefficients are sums of two
\* summands, next to (1,1,1) with the coefficient 3 of one pair
C15_Witness ==
    /\ call.op = "__mul__" /\ call.args[1] = "QSymFunction"
    /\ call.err = "none"
    /\ DictOf(call.args[2]) = (Composition_str(<<1, 1>>) :> 1) @@ (Composition_str(<<2>>) :> 1)
    /\ DictOf(call.args[3]) = (Composition_str(<<1>>) :> 1)
    /\ DictGet(call.ret, Composition_str(<<2, 1>>)) = 2
    /\ DictGet(call.ret, Composition_str(<<1, 2>>)) = 2
    /\ DictGet(call.ret, Composition_str(<<1, 1, 1>>)) = 3
    /\ DictGet(call.ret, Composition_str(<<3>>)) = 1

\* the canonical string of the composition of the block sizes of the key k
AlphaStr(k) ==
    Composition_str([i \in 1..Len(SCWordOf(k)) |-> Len(SCWordOf(k)[i])])

\* the coefficient map whose coefficient of each composition c is the sum of
\* the coefficients of the keys k of the map a with alpha(k) = c
ComuMap(a) ==
    [c \in {AlphaStr(k) : k \in DOMAIN a} |->
        SumOver({k \in DOMAIN a : AlphaStr(k) = c}, a)]

\* C16: comu() returns the QSymFunction whose coefficient of each composition
\* c is the sum of the coefficients of the keys k of the operand with
\* alpha(k) = c; {"(1|2)": 1, "(2|1)": 1} gives {"(1,1)": 2}; the sum of all
\* coefficients is preserved.
C16_Comu ==
    call.op = "comu" =>
        /\ call.err = "none"
        /\ DictOf(call.ret) = ComuMap(DictOf(call.args[2]))
        /\ SumOver(KeySet(call.ret), DictOf(call.ret))
               = SumOver(KeySet(call.args[2]), DictOf(call.args[2]))
        /\ DictOf(call.args[2]) = (BlocksStr(<< <<1>>, <<2>> >>) :> 1)
                                  @@ (BlocksStr(<< <<2>>, <<1>> >>) :> 1)
               => DictOf(call.ret) = (Composition_str(<<1, 1>>) :> 2)

\* comu was called on {"(1|2)": 1, "(2|1)": 1} and returned a map with the
\* coefficient 2
C16_Witness ==
    /\ call.op = "comu" /\ call.err = "none"
    /\ call.args[2] = << <<BlocksStr(<< <<1>>, <<2>> >>), 1>>,
                         <<BlocksStr(<< <<2>>, <<1>> >>), 1>> >>
    /\ \E i \in 1..Len(call.ret) : call.ret[i][2] = 2

(***************************************************************************)
(* Compositions and set compositions as values: a caller prints and parses *)
(* them, compares them, and builds new ones from the two set compositions  *)
(* it holds.                                                               *)
(***************************************************************************)
\* SetComposition.__eq__: the ground sets, then the numbers of parts, then
\* line 89, which compares each part of self with itself
SetComposition_eq(self, other) ==
    IF ~(self.ground_set = other.ground_set) THEN FALSE
    ELSE IF ~(Len(self.parts) = Len(other.parts)) THEN FALSE
    ELSE IF \E i \in 1..Len(self.parts) : ~(self.parts[i] = self.parts[i]) THEN FALSE
    ELSE TRUE

\* str(c), Composition(str(c)) and its str: [err, str, parts, str2]
CompositionParsed(s, r) ==
    [err |-> r.err, str |-> s, parts |-> r.parts, str2 |-> Composition_str(r.parts)]

CompositionRoundTrip(parts) ==
    CompositionParsed(Composition_str(parts), Composition_from_str(Composition_str(parts)))

\* str(s), SetComposition(str(s)) and its str: [err, str, parts, str2]
SetCompositionParsed(s, r) ==
    [err |-> r.err, str |-> s, parts |-> r.sc.parts, str2 |-> SetComposition_str(r.sc)]

SetCompositionRoundTrip(sc) ==
    SetCompositionParsed(SetComposition_str(sc),
                         SetComposition_from_str(SetComposition_str(sc)))

\* a call on values returned ret (or raised err)
ValueCall(op, args, err, ret) ==
    call' = [op |-> op, args |-> args, hit |-> FALSE, err |-> err,
             ret |-> IF err = "none" THEN ret ELSE None]

\* what a call on values leaves alone: the caches and what the caller holds
valueFrame == <<c_size, c_list, c_qcache, s_size, s_list, s_qcache, opq, opt, mat, heap>>

\* the compositions a caller holds: the parts are positive, of one or two digits
ValCompositions == {<<>>, <<1>>, <<12, 3>>, <<7, 10, 1>>}

\* the lists given to the constructor, and the blocks given to prepend: with an
\* empty block, a repeated element, an element that is not positive
ValLists ==
    {<<>>, << <<2, 1>>, <<3>> >>, << <<>>, <<1>> >>, << <<1, 2>>, <<2>> >>,
     << <<1, 1>> >>, << <<0>>, <<1>> >>}

ValBlocks == {<<>>, <<5, 4>>, <<1>>, <<0>>}

\* the lists of the set compositions the caller holds
ValHeld ==
    {<<>>, << <<1>>, <<2>> >>, << <<2>>, <<1>> >>, << <<1, 2>> >>,
     << <<1>>, <<2, 3>> >>, << <<1, 2>>, <<3>> >>, << <<3>>, <<1>>, <<2>> >>,
     << <<>>, <<1>> >>, << <<9, 1>> >>}

\* the strings given to the constructors: canonical ones, and ones with a
\* blank, a sign, an underscore, a letter, an empty field
ValCompositionStrings ==
    {<<"(", ")">>, <<"(", "1", ",", "2", ")">>, <<"(", "1", ",", " ", "2", ")">>,
     <<"(", "+", "1", ")">>, <<"(", "1", "_", "0", ")">>, <<"(", "-", "1", ")">>,
     <<"(", "0", ")">>, <<"(", "a", ")">>, <<"(", "1", ",", ")">>}

ValSetCompositionStrings ==
    {<<"(", ")">>, <<"(", "1", "2", ",", "3", "|", "4", ")">>,
     <<"(", "1", ",", "9", ")">>, <<"(", " ", "2", ")">>,
     <<"(", "+", "1", "|", "2", ")">>, <<"(", "1", "_", "0", ")">>,
     <<"(", "-", "1", ")">>, <<"(", "a", ")">>, <<"(", "1", "|", ")">>,
     <<"(", "1", "|", "1", ")">>}

\* c = Composition(str(c))
CompStrParse ==
    /\ \E c \in ValCompositions :
          \E r \in {CompositionRoundTrip(c)} :
             ValueCall("Composition(str(c))", <<c>>, r.err, r)
    /\ UNCHANGED valueFrame

\* Composition(s), s a str, by a caller that holds two empty set compositions
CompParse ==
    /\ opq.parts = <<>> /\ opt.parts = <<>>
    /\ \E s \in ValCompositionStrings :
          \E r \in {Composition_from_str(s)} :
             ValueCall("Composition(s)", <<s>>, r.err, r.parts)
    /\ UNCHANGED valueFrame

\* SetComposition(s), s a str, by the same caller
SCParse ==
    /\ opq.parts = <<>> /\ opt.parts = <<>>
    /\ \E s \in ValSetCompositionStrings :
          \E r \in {SetComposition_from_str(s)} :
             ValueCall("SetComposition(s)", <<s>>, r.err, r.sc)
    /\ UNCHANGED valueFrame

\* c.rest()
CompRest ==
    /\ \E c \in ValCompositions :
          \E r \in {Composition_rest(c)} :
             ValueCall("Composition.rest", <<c>>, r.err, r.parts)
    /\ UNCHANGED valueFrame

\* s = SetComposition(str(s)), s the first set composition held
SCStrParse ==
    /\ \E r \in {SetCompositionRoundTrip(opq)} :
          ValueCall("SetComposition(str(s))", <<opq>>, r.err, r)
    /\ UNCHANGED valueFrame

\* s == t, the two set compositions held
SCEq ==
    /\ ValueCall("SetComposition.__eq__", <<opq, opt>>, "none", SetComposition_eq(opq, opt))
    /\ UNCHANGED valueFrame

\* SetComposition(l)
SCNew ==
    /\ \E l \in ValLists :
          \E r \in {SetComposition_from_list(l)} :
             ValueCall("SetComposition", <<l>>, r.err, r.sc)
    /\ UNCHANGED valueFrame

\* s.rest()
SCRest ==
    /\ \E r \in {SetComposition_rest(opq)} :
          ValueCall("SetComposition.rest", <<opq>>, r.err, r.sc)
    /\ UNCHANGED valueFrame

\* s.prepend(a)
SCPrepend ==
    /\ \E a \in ValBlocks :
          \E r \in {SetComposition_prepend(opq, a)} :
             ValueCall("SetComposition.prepend", <<opq, a>>, r.err, r.sc)
    /\ UNCHANGED valueFrame

\* the dicts given to relabel: every label raised by one, every label sent to
\* 1, every label lowered by one
ValRelabelings(sc) ==
    {[e \in Range(sc.ground_set) |-> e + 1],
     [e \in Range(sc.ground_set) |-> 1],
     [e \in Range(sc.ground_set) |-> e - 1]}

\* s.relabel(m), m a dict, or s.relabel()
SCRelabel ==
    /\ UNCHANGED valueFrame
    /\ \/ \E m \in ValRelabelings(opq) :
             \E r \in {SetComposition_relabel_dict(opq, m)} :
                ValueCall("SetComposition.relabel", <<opq, m>>, r.err, r.sc)
       \/ \E r \in {SetComposition_relabel_none(opq)} :
             ValueCall("SetComposition.relabel", <<opq, None>>, r.err, r.sc)

\* the set compositions the constructor returns for the lists of ValHeld
ValSetCompositions == {SetComposition_from_list(l).sc : l \in ValHeld}

\* The caller holds two set compositions; the second is (), (2|1) or (1,2|3).
InitVal ==
    /\ ImportedState
    /\ opq \in ValSetCompositions
    /\ opt \in {SetComposition_from_list(l).sc :
                   l \in {<<>>, << <<2>>, <<1>> >>, << <<1, 2>>, <<3>> >>}}

NextVal ==
    \/ CompStrParse \/ CompRest \/ SCStrParse \/ SCEq
    \/ SCNew \/ SCRest \/ SCPrepend \/ SCRelabel
    \/ CompParse \/ SCParse

SpecVal == InitVal /\ [][NextVal]_vars

\* every block is non-empty, the blocks are pairwise disjoint, every element
\* is a positive integer
WellFormedBlocks(parts) ==
    /\ \A i \in 1..Len(parts) : parts[i] # <<>>
    /\ \A i \in 1..Len(parts) : \A j \in 1..Len(parts[i]) : parts[i][j] \in Nat \ {0}
    /\ \A i, j \in 1..Len(parts) : i # j => Range(parts[i]) \cap Range(parts[j]) = {}
    /\ \A i \in 1..Len(parts) : \A j, k \in 1..Len(parts[i]) :
          j # k => parts[i][j] # parts[i][k]

\* C17: for every valid composition c, Composition(str(c)) has the parts of c
\* and the same string; for every valid set composition s, SetComposition(str(s))
\* has the blocks of s and the same string; the empty ones print as "()".
C17_RoundTrip ==
    /\ call.op = "Composition(str(c))" =>
          /\ call.err = "none"
          /\ call.ret.parts = call.args[1]
          /\ call.ret.str2 = call.ret.str
          /\ call.args[1] = <<>> => call.ret.str = <<"(", ")">>
    /\ (call.op = "SetComposition(str(s))" /\ WellFormedBlocks(call.args[1].parts)) =>
          /\ call.err = "none"
          /\ call.ret.parts = call.args[1].parts
          /\ call.ret.str2 = call.ret.str
          /\ call.args[1].parts = <<>> => call.ret.str = <<"(", ")">>

\* a composition with a part of two digits was printed and parsed back
C17_Witness ==
    /\ call.op = "Composition(str(c))"
    /\ call.err = "none"
    /\ call.args[1] = <<12, 3>>
    /\ call.ret.str = <<"(", "1", "2", ",", "3", ")">>
    /\ call.ret.parts = <<12, 3>>

\* C18: two SetComposition instances compare equal with == if and only if
\* their canonical strings are equal.
C18_EqIffSameString ==
    call.op = "SetComposition.__eq__" =>
        (call.ret <=> SetComposition_str(call.args[1]) = SetComposition_str(call.args[2]))

\* the set compositions returned by the constructor, rest, prepend and relabel
ValMakers ==
    {"SetComposition", "SetComposition(s)", "SetComposition.rest",
     "SetComposition.prepend", "SetComposition.relabel"}

\* C19: every SetComposition returned by the constructor, rest, prepend or
\* relabel has only non-empty, pairwise disjoint blocks of positive integers,
\* and a list or a block that would break this makes the constructor or
\* prepend fail.
C19_BlocksWellFormed ==
    /\ (call.op \in ValMakers /\ call.err = "none") => WellFormedBlocks(call.ret.parts)
    /\ (call.op = "SetComposition" /\ ~WellFormedBlocks(call.args[1])) =>
          call.err # "none"
    /\ (call.op = "SetComposition.prepend"
        /\ ~WellFormedBlocks(<<call.args[2]>> \o call.args[1].parts)) =>
          call.err # "none"

\* C20: rest() on the empty set composition fails, as rest() on the empty
\* Composition does.
C20_RestOfEmptyFails ==
    /\ (call.op = "SetComposition.rest" /\ call.args[1].parts = <<>>) =>
          call.err # "none"
    /\ (call.op = "Composition.rest" /\ call.args[1] = <<>>) => call.err # "none"

(***************************************************************************)
(* Relabeling: a caller relabels the set composition it holds with a list, *)
(* a dict, or None.                                                        *)
(***************************************************************************)
\* the lists of the set compositions the caller holds
RelHeld ==
    {<<>>, << <<2>> >>, << <<3>>, <<1>> >>, << <<2, 5>>, <<3>> >>, << <<1, 3>>, <<2>> >>,
     << <<4>>, <<1>>, <<2>> >>, << <<9, 1>> >>}

\* the new labels
RelLabels == {1, 2, MaxLabel}

\* the lists given to relabel: every list of new labels of the length of the
\* ground set, one that is shorter and one that is longer
RelLists(sc) ==
    {List(l) : l \in [1..Len(sc.ground_set) -> RelLabels]}
    \cup {SubSeq(<<1, 2, 3, 4, 5, 6>>, 1, n) :
             n \in {Len(sc.ground_set) + 1} \cup ({Len(sc.ground_set) - 1} \ {-1})}

\* the dicts given to relabel: every label raised by one, every label sent to
\* 1, every label lowered by one, a dict that lacks the largest label, and a
\* dict with a key more
RelDicts(sc) ==
    ValRelabelings(sc)
    \cup {[e \in {x \in Range(sc.ground_set) :
                     \E y \in Range(sc.ground_set) : x < y} |-> e + 1],
          [e \in Range(sc.ground_set) \cup {MaxLabel + 1} |-> e + 1]}

\* s.relabel(m) returned r (or raised); kind is "list", "dict" or "None"
RelabelReturn(kind, m, r) ==
    /\ call' = [op |-> "SetComposition.relabel", args |-> <<opq, kind, m>>,
                hit |-> FALSE, err |-> r.err,
                ret |-> IF r.err = "none" THEN r.sc ELSE None]
    /\ UNCHANGED valueFrame

RelabelList ==
    /\ opt = EmptySC
    /\ \E l \in RelLists(opq) : RelabelReturn("list", l, SetComposition_relabel_list(opq, l))

RelabelDict ==
    /\ opt = EmptySC
    /\ \E m \in RelDicts(opq) : RelabelReturn("dict", m, SetComposition_relabel_dict(opq, m))

RelabelNone ==
    /\ opt = EmptySC
    /\ RelabelReturn("None", <<>>, SetComposition_relabel_none(opq))

InitRel ==
    /\ ImportedState
    /\ opq \in {SetComposition_from_list(l).sc : l \in RelHeld}
    /\ opt = EmptySC

NextRel == RelabelList \/ RelabelDict \/ RelabelNone

SpecRel == InitRel /\ [][NextRel]_vars

\* the position of the label e in the ground set of sc
GroundIndex(sc, e) == CHOOSE i \in 1..Len(sc.ground_set) : sc.ground_set[i] = e

\* the mapping is a total injective map on the ground set of sc
RelTotalInjective(sc, kind, m) ==
    LET G == Range(sc.ground_set)
        at(e) == IF kind = "list" THEN m[GroundIndex(sc, e)] ELSE m[e]
    IN /\ kind = "list" => Len(m) = Len(sc.ground_set)
       /\ kind = "dict" => G \subseteq DOMAIN m
       /\ kind # "None" => \A x, y \in G : x # y => at(x) # at(y)

\* the inverse of the mapping on the ground set of sc, as a dict
RelInverse(sc, kind, m) ==
    LET G == Range(sc.ground_set)
        at(e) == IF kind = "list" THEN m[GroundIndex(sc, e)]
                 ELSE IF kind = "dict" THEN m[e] ELSE GroundIndex(sc, e)
    IN [y \in {at(e) : e \in G} |-> CHOOSE e \in G : at(e) = y]

\* C21: relabel fails when a list has a length different from the ground set,
\* or when the mapping is not a total injective map on the ground set; when it
\* succeeds the result has the same block sizes in the same order, self is
\* unchanged, and relabeling the result with the inverse map gives a set
\* composition with the canonical string of self; relabel(None) yields the
\* ground set {1..k}.
C21_Relabel ==
    call.op = "SetComposition.relabel" =>
        /\ ~RelTotalInjective(call.args[1], call.args[2], call.args[3]) =>
              call.err # "none"
        /\ call.err = "none" =>
              /\ SetComposition_alpha(call.ret) = SetComposition_alpha(call.args[1])
              /\ opq = call.args[1]
              /\ \A back \in {SetComposition_relabel_dict(call.ret,
                                  RelInverse(call.args[1], call.args[2], call.args[3]))} :
                    /\ back.err = "none"
                    /\ SetComposition_str(back.sc) = SetComposition_str(call.args[1])
        /\ call.args[2] = "None" =>
              /\ call.err = "none"
              /\ Range(call.ret.ground_set) = 1..Len(call.args[1].ground_set)

\* (2,5|3) was relabeled with the list [2, 6, 1]: 2 -> 2, 3 -> 6, 5 -> 1
C21_Witness ==
    /\ call.op = "SetComposition.relabel"
    /\ call.err = "none"
    /\ call.args[2] = "list"
    /\ call.args[1].parts = << <<2, 5>>, <<3>> >>
    /\ call.args[3] = <<2, MaxLabel, 1>>
    /\ call.ret.parts = << <<1, 2>>, <<MaxLabel>> >>

(***************************************************************************)
(* Matroid.extend, as the caller of the matroid calls sees it.             *)
(***************************************************************************)
\* the bases after the elements from position k on have been added: the
\* bases so far, and every basis so far with a new element in the place of an
\* element of the original ground set
RECURSIVE ExtendedBases(_, _, _, _)
ExtendedBases(ground_set, bases_sets, elements, k) ==
    IF k > Len(elements) THEN bases_sets
    ELSE ExtendedBases(ground_set,
                       bases_sets \cup {(B \ {i}) \cup {elements[k]} :
                                           <<B, i>> \in {p \in bases_sets \X ground_set :
                                                            p[2] \in p[1]}},
                       elements, k + 1)

\* C22: for a Matroid of rank >= 1 and a list of elements none of which is in
\* its ground set, extend returns without raising a Matroid whose ground set
\* is the old one plus the new elements and whose bases are the existing bases
\* together with every candidate obtained from a basis by substituting a new
\* element for an element of the original ground set; the original Matroid is
\* unchanged.
C22_Extend ==
    (/\ call.op = "Matroid.extend"
     /\ \E B \in opt : B # {}
     /\ Range(call.args[1]) \cap opq = {}) =>
        /\ call.err = "none"
        /\ mat # <<>>
        /\ mat[1].ground_set = opq \cup Range(call.args[1])
        /\ mat[1].bases_sets = ExtendedBases(opq, opt, call.args[1], 1)

(***************************************************************************)
(* Rank and independent sets: the caller holds a matroid the constructor   *)
(* returned.                                                               *)
(***************************************************************************)
\* Matroid._get_all_subsets, the loop of lines 73-77 from element i of elems
RECURSIVE GetAllSubsetsLoop(_, _, _)
GetAllSubsetsLoop(elems, i, result) ==
    IF i > Len(elems) THEN result
    ELSE GetAllSubsetsLoop(elems, i + 1,
                           result \cup {subset \cup {elems[i]} : subset \in result})

\* Matroid._get_all_subsets(s)
Matroid_get_all_subsets(s) == GetAllSubsetsLoop(SortSet(s), 1, {{}})

\* (a faulty rank, for comparison: the elements of the basis are all counted)
Matroid_rank_whole(m, subset) ==
    MaxOf({Cardinality(basis_set) : basis_set \in m.bases_sets})

\* Matroid.rank(subset): line 92
Matroid_rank(m, subset) ==
    MaxOf({Cardinality({i \in basis_set : i \in subset}) : basis_set \in m.bases_sets})

\* Matroid.independent_sets(): lines 103-113
Matroid_independent_sets(m) ==
    {subset \in Matroid_get_all_subsets(m.ground_set) :
        \E basis_set \in m.bases_sets : \A i \in subset : i \in basis_set}

\* A matroid call returned ret; the caller keeps the matroid
RankReturn(op, args, ret) ==
    /\ call' = [op |-> op, args |-> args, hit |-> FALSE, err |-> "none", ret |-> ret]
    /\ UNCHANGED valueFrame

\* m.rank(S), S a subset of the ground set
CallRank ==
    /\ opt = {}
    /\ \E S \in SUBSET opq.ground_set :
          RankReturn("Matroid.rank", <<opq, S>>, Matroid_rank(opq, S))

\* m.independent_sets()
CallIndependentSets ==
    /\ opt = {}
    /\ RankReturn("Matroid.independent_sets", <<opq>>, Matroid_independent_sets(opq))

\* The caller holds a matroid the constructor returned for a ground set {1..n},
\* n one below MaxElem or MaxElem, and a family of sets of elements
InitRank ==
    /\ ImportedState
    /\ opq \in {r.m : r \in {s \in {Matroid_init(1..n, F) :
                                      n \in (MaxElem - 1)..MaxElem,
                                      F \in FamiliesUpTo(1..MaxElem, MaxBases)} :
                                 s.err = "none"}}
    /\ opt = {}

NextRank == CallRank \/ CallIndependentSets

SpecRank == InitRank /\ [][NextRank]_vars

\* the largest number of a non-empty finite set of numbers
Largest(N) == CHOOSE n \in N : \A k \in N : k <= n

\* C23: M.rank(S) is the maximum over the bases B of |B \cap S|, which is the
\* size of the largest member of M.independent_sets() contained in S;
\* independent_sets() is exactly the set of the subsets of the ground set
\* contained in some basis.
C23_RankAndIndependentSets ==
    /\ call.op = "Matroid.rank" =>
          /\ call.ret = Largest({Cardinality(B \cap call.args[2]) :
                                    B \in call.args[1].bases_sets})
          /\ call.ret = Largest({Cardinality(I) :
                                    I \in {J \in Matroid_independent_sets(call.args[1]) :
                                              J \subseteq call.args[2]}})
    /\ call.op = "Matroid.independent_sets" =>
          call.ret = {I \in SUBSET call.args[1].ground_set :
                         \E B \in call.args[1].bases_sets : I \subseteq B}

\* the rank of a proper subset that meets every basis of a matroid of rank 2
\* in one element
C23_Witness ==
    /\ call.op = "Matroid.rank"
    /\ call.args[1].bases_sets = {{1, 2}, {2, 3}}
    /\ call.args[2] = {2}
    /\ call.ret = 1

(***************************************************************************)
(* The caches: a client calls the generators and the products of both      *)
(* classes in any order.                                                   *)
(***************************************************************************)
\* the sizes asked for: a negative one, and one above the cached sizes by
\* more than one
CacheCompSizes == {-1, Composition_PREGEN + 2}

CacheSCSizes == {-1, SetComposition_PREGEN + 1}

\* the compositions multiplied: one whose row the cache has, one above the
\* pregenerated sizes
CacheComps == {<<1>>, <<Composition_PREGEN + 1>>}

\* the pairs of set compositions multiplied: the first operand is above the
\* pregenerated sizes, the second has one label, below, above or far above
\* the labels of the first
CacheSCPairs ==
    {<<SetComposition_from_list(<< <<1, 2>>, <<3, 4>> >>).sc,
       SetComposition_from_list(<< <<5>> >>).sc>>,
     <<SetComposition_from_list(<< <<2, 3>>, <<4, 5>> >>).sc,
       SetComposition_from_list(<< <<1>> >>).sc>>,
     <<SetComposition_from_list(<< <<1, 2, 3, 4>> >>).sc,
       SetComposition_from_list(<< <<MaxLabel>> >>).sc>>}

CacheGenComp ==
    /\ \E n \in CacheCompSizes : CallGenerateAllComposition(n)
    /\ UNCHANGED <<opq, opt>>

CacheGenSC ==
    /\ \E n \in CacheSCSizes : CallGenerateAllSetcompositions(n)
    /\ UNCHANGED <<opq, opt>>

CacheCompShuffle ==
    /\ \E q \in CacheComps : CallCompositionQuasiShuffles(q, <<Composition_PREGEN + 1>>)
    /\ UNCHANGED <<opq, opt>>

CacheSCShuffle ==
    /\ \E p \in CacheSCPairs : CallSetCompositionQuasiShuffles(p[1], p[2])
    /\ UNCHANGED <<opq, opt>>

InitCache == ImportedState /\ opq = None /\ opt = None

NextCache == CacheGenComp \/ CacheGenSC \/ CacheCompShuffle \/ CacheSCShuffle

SpecCache == InitCache /\ [][NextCache]_vars

(***************************************************************************)
(* The cache of the products of set compositions as a client of the two    *)
(* static methods quasi_shuffles_add_to_cache and                          *)
(* quasi_shuffles_fetch_from_cache sees it: the client writes an entry,    *)
(* reads one, or multiplies.                                               *)
(***************************************************************************)
\* the operands: a pair the cache has an entry for from the import, the same
\* pair with other labels, and a pair above the pregenerated sizes
ApiSCPairs ==
    {<<SetComposition_from_list(<< <<1>> >>).sc, SetComposition_from_list(<< <<2>> >>).sc>>,
     <<SetComposition_from_list(<< <<2>> >>).sc, SetComposition_from_list(<< <<1>> >>).sc>>,
     <<SetComposition_from_list(<< <<1, 2>>, <<3, 4>> >>).sc,
       SetComposition_from_list(<< <<5>> >>).sc>>}

\* a pair whose operands share their label
ApiOverlapping ==
    <<SetComposition_from_list(<< <<1>> >>).sc, SetComposition_from_list(<< <<1>> >>).sc>>

\* the dicts written for every pair: {"(1|2)": 5}, {}, and one with a key
\* whose labels the operands lack
ApiDicts ==
    {DictItem(SetComposition_str(SetComposition_from_list(<< <<1>>, <<2>> >>).sc), 5),
     EmptyDict,
     DictItem(SetComposition_str(SetComposition_from_list(<< <<1>>, <<MaxLabel>> >>).sc), 1)}

\* the dicts written for the operands (1) and (2) only:
\* {"(a)": 1, "(9)": 1}, whose first key is no set composition and whose
\* second has a label the operands lack; {"(1|2)": 5, "( 1|2)": 7}, two
\* strings of one set composition; {"(2)": 2, "(1)": 1}
ApiOrderedDicts ==
    {<< <<(<<"(", "a", ")">>), 1>>, <<(<<"(", "9", ")">>), 1>> >>,
     << <<(<<"(", "1", "|", "2", ")">>), 5>>, <<(<<"(", " ", "1", "|", "2", ")">>), 7>> >>,
     << <<(<<"(", "2", ")">>), 2>>, <<(<<"(", "1", ")">>), 1>> >>}

\* the calls of quasi_shuffles_add_to_cache: the operands and the dict
ApiWrites ==
    (ApiSCPairs \X ApiDicts)
    \cup {<<p, qs_in>> : p \in {q \in ApiSCPairs : q[1].parts = << <<1>> >>},
                         qs_in \in ApiOrderedDicts}

\* SetComposition.quasi_shuffles_add_to_cache(q_in, t_in, qs_in)
ClientAddToCache ==
    /\ \E w \in ApiWrites :
          \E r \in {quasi_shuffles_add_to_cache(w[1][1], w[1][2], w[2], s_qcache)} :
             /\ s_qcache' = r.cache
             /\ call' = [op |-> "SetComposition.quasi_shuffles_add_to_cache",
                         args |-> <<w[1][1], w[1][2], w[2]>>, hit |-> FALSE,
                         err |-> r.err, ret |-> None]
    /\ UNCHANGED <<c_size, c_list, c_qcache, s_size, s_list, opq, opt, mat, heap>>

\* SetComposition.quasi_shuffles_fetch_from_cache(q_in, t_in)
ClientFetchFromCache ==
    /\ \E p \in ApiSCPairs \cup {ApiOverlapping} :
          \E r \in {quasi_shuffles_fetch_from_cache(p[1], p[2], s_qcache)} :
             call' = [op |-> "SetComposition.quasi_shuffles_fetch_from_cache",
                      args |-> <<p[1], p[2]>>, hit |-> r.found, err |-> r.err,
                      ret |-> r.qs]
    /\ UNCHANGED valueFrame

ClientShuffle ==
    /\ \E p \in ApiSCPairs \cup {ApiOverlapping} :
          CallSetCompositionQuasiShuffles(p[1], p[2])
    /\ UNCHANGED <<opq, opt>>

InitApi == ImportedState /\ opq = None /\ opt = None

NextApi == ClientAddToCache \/ ClientFetchFromCache \/ ClientShuffle

SpecApi == InitApi /\ [][NextApi]_vars



\* every entry of the list old is the entry of new at the same place
ListKept(old, new) ==
    /\ Len(new) >= Len(old)
    /\ \A i \in 1..Len(old) : new[i] = old[i]

\* every entry of the table old is in new, with the same value
TableKept(old, new) ==
    \A sq \in DOMAIN old :
        /\ sq \in DOMAIN new
        /\ \A st \in DOMAIN old[sq] : st \in DOMAIN new[sq] /\ new[sq][st] = old[sq][st]

caches == <<c_list, c_qcache, s_list, s_qcache>>

\* C24: the enumeration lists and the quasi-shuffle tables of Composition and
\* SetComposition are additive-only: over any sequence of generate_all and
\* quasi_shuffles calls an entry once present is never removed and never
\* replaced by a different value.
C24_CachesAdditive ==
    [][/\ ListKept(c_list, c_list')
       /\ TableKept(c_qcache, c_qcache')
       /\ ListKept(s_list, s_list')
       /\ TableKept(s_qcache, s_qcache')]_caches

\* all four caches hold entries above the pregenerated ones
C24_Witness ==
    /\ Len(c_list) > Composition_PREGEN + 1
    /\ Len(s_list) > SetComposition_PREGEN + 1
    /\ Composition_str(<<1>>) \in DOMAIN c_qcache
    /\ Composition_str(<<Composition_PREGEN + 1>>) \in DOMAIN c_qcache[Composition_str(<<1>>)]
    /\ SetComposition_str(SetComposition_from_list(<< <<1, 2>>, <<3, 4>> >>).sc)
           \in DOMAIN s_qcache

(***************************************************************************)
(* The two orientations of a product of compositions.                      *)
(***************************************************************************)
\* C25: once Composition.quasi_shuffles(q, t) has been computed and cached for
\* non-empty q and t, a later call quasi_shuffles(t, q) is answered from the
\* cache, without recomputing the recursion.
C25_BothOrientations ==
    [][(/\ call'.op = "Composition.quasi_shuffles"
        /\ call'.args[1] # <<>>
        /\ call'.args[2] # <<>>
        /\ CompCacheHit(c_qcache, call'.args[2], call'.args[1])) => call'.hit
      ]_<<c_qcache, call.args, call.hit>>

(***************************************************************************)
(* The constructors of the formal sums, by the type of the argument        *)
(* monomial_basis: a Python value is [type, value].                        *)
(***************************************************************************)
PyStr(s) == [type |-> "str", value |-> s]

PyComposition(parts) == [type |-> "Composition", value |-> parts]

PySetComposition(sc) == [type |-> "SetComposition", value |-> sc]

PyDict(d) == [type |-> "dict", value |-> d]

PyTuple(t) == [type |-> "tuple", value |-> t]

PyNone == [type |-> "NoneType", value |-> None]

\* lines 16-30 of quasisymmetric.py: the dict coefficients by the type of item
\* (a tuple here is a pair of a Composition and an int).  Line 27,
\* "item == None", is item.__eq__(None): that of a SetComposition reads
\* other.ground_set and raises AttributeError.
QSymFunction_branches(item) ==
    IF item.type = "tuple"
    THEN [err |-> "none",
          coefficients |-> DictItem(Composition_str(item.value[1]), item.value[2])]
    ELSE IF item.type = "Composition"
    THEN [err |-> "none", coefficients |-> DictItem(Composition_str(item.value), 1)]
    ELSE IF item.type = "dict"
    THEN [err |-> "none", coefficients |-> item.value]
    ELSE IF item.type = "SetComposition"
    THEN [err |-> "AttributeError", coefficients |-> EmptyDict]
    ELSE IF item.type = "NoneType"
    THEN [err |-> "none", coefficients |-> EmptyDict]
    ELSE [err |-> "Exception", coefficients |-> EmptyDict]

\* lines 35-45: the keys of the dict b.coefficients are checked
QSymFunction_checked(b) ==
    [err |-> IF b.err # "none" THEN b.err ELSE QSymFunction_validate(b.coefficients),
     coefficients |-> b.coefficients]

\* QSymFunction(monomial_basis = item); returns [err, coefficients]
QSymFunction_new(item) == QSymFunction_checked(QSymFunction_branches(item))

\* NCQSymFunction(monomial_basis = item), lines 14-24 of ncquasisymmetric.py
NCQSymFunction_new(item) ==
    IF item.type = "str"
    THEN [err |-> "none", coefficients |-> DictItem(item.value, 1)]
    ELSE IF item.type = "SetComposition"
    THEN [err |-> "none", coefficients |-> DictItem(SetComposition_str(item.value), 1)]
    ELSE IF item.type = "dict"
    THEN [err |-> "none", coefficients |-> item.value]
    ELSE [err |-> "Exception", coefficients |-> EmptyDict]

\* the arguments a client passes: the monomials up to the pregenerated sizes
\* as objects, as canonical strings, with a coefficient, in a dict; None; a
\* monomial of the other class; and the dict literals of MonoLiterals
MonoCompositions == CompositionsUpTo(Composition_PREGEN)

\* {"(1, 3, 2)": 1, "(2, 1)": 1}, the dict of the comment of line 25, whose
\* keys have a blank after each comma
DocstringDict ==
    << <<(<<"(", "1", ",", " ", "3", ",", " ", "2", ")">>), 1>>,
       <<(<<"(", "2", ",", " ", "1", ")">>), 1>> >>

\* {"(a)": 1, "(0)": 1}: neither key is a composition
MalformedDict == << <<(<<"(", "a", ")">>), 1>>, <<(<<"(", "0", ")">>), 1>> >>

\* the two-key dict d written with either key first
DictLiterals(d) == {PyDict(d), PyDict(<<d[2], d[1]>>)}

MonoLiterals == DictLiterals(DocstringDict) \cup DictLiterals(MalformedDict)

MonoSetCompositions ==
    UNION {SetCompositionsOf(n) : n \in 0..SetComposition_PREGEN}

MonoQSymItems ==
    {PyComposition(p) : p \in MonoCompositions}
    \cup {PyStr(Composition_str(p)) : p \in MonoCompositions}
    \cup {PyTuple(<<p, c>>) : p \in MonoCompositions, c \in AlgCoeffs}
    \cup {PyDict(DictItem(Composition_str(p), 1)) : p \in MonoCompositions}
    \cup {PyNone}
    \cup {PySetComposition(sc) : sc \in SetCompositionsOf(2)}
    \cup MonoLiterals

MonoNCQSymItems ==
    {PySetComposition(sc) : sc \in MonoSetCompositions}
    \cup {PyStr(SetComposition_str(sc)) : sc \in MonoSetCompositions}
    \cup {PyDict(DictItem(SetComposition_str(sc), 1)) : sc \in MonoSetCompositions}
    \cup {PyNone}

\* the constructor cls returned r (or raised r.err)
MonoReturn(cls, item, r) ==
    /\ call' = [op |-> cls, args |-> <<item>>, hit |-> FALSE, err |-> r.err,
                ret |-> r.coefficients]
    /\ UNCHANGED valueFrame

NewQSymFunction ==
    /\ opq = None
    /\ \E item \in MonoQSymItems : MonoReturn("QSymFunction", item, QSymFunction_new(item))

NewNCQSymFunction ==
    /\ opq = None
    /\ \E item \in MonoNCQSymItems :
          MonoReturn("NCQSymFunction", item, NCQSymFunction_new(item))

InitMono == ImportedState /\ opq = None /\ opt = None

NextMono == NewQSymFunction \/ NewNCQSymFunction

SpecMono == InitMono /\ [][NextMono]_vars

\* C26: QSymFunction(monomial_basis = "(2,1)") and
\* NCQSymFunction(monomial_basis = "(2|1)") each succeed and yield the
\* coefficient map with that one key and coefficient 1, the map obtained by
\* passing the Composition or SetComposition of that string; so for the
\* canonical string of every monomial.
C26_FromCanonicalString ==
    /\ (call.op = "QSymFunction" /\ call.args[1].type = "str") =>
          /\ call.err = "none"
          /\ DictOf(call.ret) = (call.args[1].value :> 1)
          /\ call.ret = QSymFunction_new(PyComposition(
                            Composition_from_str(call.args[1].value).parts)).coefficients
    /\ (call.op = "NCQSymFunction" /\ call.args[1].type = "str") =>
          /\ call.err = "none"
          /\ DictOf(call.ret) = (call.args[1].value :> 1)
          /\ call.ret = NCQSymFunction_new(PySetComposition(
                            SetComposition_from_str(call.args[1].value).sc)).coefficients

(***************************************************************************)
(* The order of the enumeration of the set compositions of {1, 2, 3}.      *)
(***************************************************************************)
\* the blocks of the 13 set compositions in the order the docstring of
\* generate_all_setcompositions gives
DocstringOrder3 ==
    << << <<1, 2, 3>> >>,
       << <<2, 3>>, <<1>> >>, << <<1, 3>>, <<2>> >>, << <<1, 2>>, <<3>> >>,
       << <<3>>, <<1, 2>> >>, << <<2>>, <<1, 3>> >>, << <<1>>, <<2, 3>> >>,
       << <<3>>, <<2>>, <<1>> >>, << <<3>>, <<1>>, <<2>> >>,
       << <<2>>, <<3>>, <<1>> >>, << <<2>>, <<1>>, <<3>> >>,
       << <<1>>, <<3>>, <<2>> >>, << <<1>>, <<2>>, <<3>> >> >>

\* C27: generate_all_setcompositions(3) returns its 13 set compositions in the
\* order (1,2,3), (2,3|1), (1,3|2), (1,2|3), (3|1,2), (2|1,3), (1|2,3),
\* (3|2|1), (3|1|2), (2|3|1), (2|1|3), (1|3|2), (1|2|3); for every n >= 1 the
\* set composition with the single block {1..n} is first.
C27_EnumerationOrder ==
    (call.op = "SetComposition.generate_all_setcompositions" /\ call.args[1] >= 1) =>
        /\ call.err = "none"
        /\ call.ret[1].parts = <<RangeList(1, call.args[1])>>
        /\ call.args[1] = 3 =>
              [i \in 1..Len(call.ret) |-> call.ret[i].parts] = DocstringOrder3

(***************************************************************************)
(* The entries of the table of products of set compositions.               *)
(***************************************************************************)
\* the quasi-shuffle of the set compositions whose canonical strings are sq, st
SCProductOfKeys(sq, st) ==
    SCCoefficientMap(SCRecurrence(SetComposition_from_str(sq).sc.parts,
                                  SetComposition_from_str(st).sc.parts))


\* C28: in every state reached by SetComposition.quasi_shuffles calls on
\* disjoint operands with any labels and sizes, every cache entry stored under
\* the key pair (str(q'), str(t')) is the quasi-shuffle of the set
\* compositions q' and t' the key pair names.
C28_CacheEntriesTrue ==
    \A sq \in DOMAIN s_qcache : \A st \in DOMAIN s_qcache[sq] :
        DictOf(s_qcache[sq][st]) = SCProductOfKeys(sq, st)

(***************************************************************************)
(* The enumeration caches under any sequence of generate_all calls.        *)
(***************************************************************************)
\* the list l holds every element of the set all once and nothing else
ListsAll(l, all) == Range(l) = all /\ NoRepeat(l)

\* the recorded sizes are the lengths of the lists, and the k-th list is the
\* list of all compositions, or set compositions, of size k
GenCachesTrue ==
    /\ c_size = Len(c_list)
    /\ \A k \in 0..(c_size - 1) : ListsAll(c_list[k + 1], CompositionsOf(k))
    /\ s_size = Len(s_list)
    /\ \A k \in 0..(s_size - 1) : ListsAll(s_list[k + 1], SetCompositionsOf(k))

\* the last call was a generate_all call with a negative argument
GenNegative ==
    /\ call.op \in {"Composition.generate_all_composition",
                    "SetComposition.generate_all_setcompositions"}
    /\ call.args[1] < 0

genCaches == <<c_size, c_list, s_size, s_list>>

\* C29: in every state reached by generate_all calls with any arguments
\* (repeated, decreasing, negative, above the cached size by more than one)
\* the recorded size of each class is the length of its cached list and for
\* every k below it the k-th entry is the list of all compositions (set
\* compositions) of size k; a call with a negative argument returns the empty
\* list and leaves the caches unchanged.
C29_GenCaches ==
    /\ [](GenCachesTrue /\ (GenNegative => call.err = "none" /\ call.ret = <<>>))
    /\ [][GenNegative' => UNCHANGED genCaches]_genCaches

\* in each class a call above the cached size by more than one has filled
\* the sizes between: generate_all_composition up to Composition_PREGEN + 3,
\* and then generate_all_setcompositions(SetComposition_PREGEN + 2), which
\* computed the 75 set compositions of size 4 and the 541 of size 5
C29_Witness ==
    /\ c_size = Composition_PREGEN + 4
    /\ Len(c_list[Composition_PREGEN + 2]) = Pow2(Composition_PREGEN)
    /\ Len(c_list[Composition_PREGEN + 4]) = Pow2(Composition_PREGEN + 2)
    /\ call.op = "SetComposition.generate_all_setcompositions"
    /\ ~call.hit
    /\ call.args[1] = SetComposition_PREGEN + 2
    /\ s_size = SetComposition_PREGEN + 3
    /\ Len(s_list[SetComposition_PREGEN + 2]) = 75
    /\ Len(s_list[SetComposition_PREGEN + 3]) = 541
    /\ Len(call.ret) = 541

(***************************************************************************)
(* The chromatic function of a matroid, by the predicate and by the loop   *)
(* of examples/dimention_computation.py.                                   *)
(***************************************************************************)
\* lines 23-24 of chromatic_statistics_matorids.py from the i-th set
\* composition of the list on: "{str(opi): 1 for opi in all_set_compositions
\* if stable_matroids_setcompositions(matroid, opi)}"
RECURSIVE ChromaticCoeffsLoop(_, _, _, _)
ChromaticCoeffsLoop(matroid, opis, i, coeffs) ==
    IF i > Len(opis) THEN coeffs
    ELSE ChromaticCoeffsLoop(matroid, opis, i + 1,
             IF stable_matroids_setcompositions(matroid, opis[i].sc).ret
             THEN DictSet(coeffs, SetComposition_str(opis[i].sc), 1)
             ELSE coeffs)

\* lines 22-24: the relabeled set compositions opis (each [err, sc]) that are
\* stable, each with coefficient 1
ChromaticCoeffs(matroid, opis) ==
    IF \E i \in 1..Len(opis) : opis[i].err # "none"
    THEN [err |-> "ValueError", coefficients |-> EmptyDict]
    ELSE [err |-> "none",
          coefficients |-> ChromaticCoeffsLoop(matroid, opis, 1, EmptyDict)]

\* lines 19-21: every set composition of the list all relabeled by
\* relabeling_map = {i+1: ground_list[i]}
ChromaticRelabeled(all, ground_list) ==
    [i \in 1..Len(all) |->
        SetComposition_relabel_dict(all[i],
            [e \in 1..Len(ground_list) |-> ground_list[e]])]

\* generate_all_setcompositions returned g (or raised)
ChromaticOfList(matroid, g, ground_list) ==
    IF g.err # "none" THEN [err |-> g.err, coefficients |-> EmptyDict, st |-> g.st]
    ELSE [err |-> ChromaticCoeffs(matroid, ChromaticRelabeled(g.ret, ground_list)).err,
          coefficients |->
              ChromaticCoeffs(matroid, ChromaticRelabeled(g.ret, ground_list)).coefficients,
          st |-> g.st]

\* chromatic_non_commutative_quasisymmetric_function(matroid) from the cache
\* state st; returns [err, coefficients, st].  The ground set is a frozenset
\* built from its elements in ascending order.
chromatic_non_commutative_quasisymmetric_function(matroid, st) ==
    ChromaticOfList(matroid,
                    generate_all_setcompositions(Cardinality(matroid.ground_set), st),
                    ListOfSet(SortSet(matroid.ground_set)))

\* lines 43-46 of dimention_computation.py: ground_set_score[i] for the set
\* composition sc
GroundSetScore(sc, i) ==
    SeqSum([k \in 1..Len(sc.parts) |-> IF i \in Range(sc.parts[k]) THEN k - 1 ELSE 0])

\* lines 47-51: scores[base][sc_index]
ExampleScore(sc, base) == SumOver(base, [i \in base |-> GroundSetScore(sc, i)])

\* lines 62-68 for one set composition: whether its monomial is added
StableLoopAdds(matroid, sc, dim) ==
    IF Len(SetComposition_alpha(sc).parts) = dim THEN TRUE
    ELSE CountOfMaxIsOne([base \in matroid.bases_sets |-> ExampleScore(sc, base)])

\* lines 61-68 for one matroid, from the i-th set composition of the list:
\* the coefficients of ncqsym[matroid_index]
RECURSIVE StableLoop(_, _, _, _, _)
StableLoop(matroid, setcompositions_d, dim, i, acc) ==
    IF i > Len(setcompositions_d) THEN acc
    ELSE StableLoop(matroid, setcompositions_d, dim, i + 1,
                    IF StableLoopAdds(matroid, setcompositions_d[i], dim)
                    THEN DictAddTo(acc,
                                   DictItem(SetComposition_str(setcompositions_d[i]), 1))
                    ELSE acc)

\* the loop of the example for the matroid, the list of set compositions
\* having been returned as g; "sc.alpha()" of line 63 raising ends the script
ExampleOfList(matroid, g, dim) ==
    IF g.err # "none" THEN [err |-> g.err, coefficients |-> EmptyDict, st |-> g.st]
    ELSE IF \E i \in 1..Len(g.ret) : SetComposition_alpha(g.ret[i]).err # "none"
    THEN [err |-> "ValueError", coefficients |-> EmptyDict, st |-> g.st]
    ELSE [err |-> "none", coefficients |-> StableLoop(matroid, g.ret, dim, 1, EmptyDict),
          st |-> g.st]

ExampleChromatic(matroid, dim, st) ==
    ExampleOfList(matroid, generate_all_setcompositions(dim, st), dim)

\* a chromatic function was computed: the coefficients are returned and the
\* enumeration cache is as generate_all_setcompositions left it
ChromaticReturn(op, r) ==
    /\ call' = [op |-> op, args |-> <<opq>>, hit |-> FALSE, err |-> r.err,
                ret |-> r.coefficients]
    /\ s_size' = r.st.size
    /\ s_list' = r.st.list
    /\ UNCHANGED <<c_size, c_list, c_qcache, s_qcache, opq, opt, mat, heap>>

\* The caller holds a matroid on {1..d} and a set composition of {1..d}
ChromStable ==
    /\ Len(opt.ground_set) = Cardinality(opq.ground_set)
    /\ CallStable

ChromFunction ==
    /\ Len(opt.ground_set) = Cardinality(opq.ground_set)
    /\ ChromaticReturn("chromatic_non_commutative_quasisymmetric_function",
           chromatic_non_commutative_quasisymmetric_function(
               opq, [size |-> s_size, list |-> s_list]))

ChromExample ==
    /\ Len(opt.ground_set) = Cardinality(opq.ground_set)
    /\ ChromaticReturn("dimention_computation",
           ExampleChromatic(opq, Cardinality(opq.ground_set),
                            [size |-> s_size, list |-> s_list]))

\* The matroid held was returned by Matroid(StableGround, F) for a family F of
\* subsets of StableGround; the set composition is one of StableGround.
InitChrom ==
    /\ ImportedState
    /\ opq \in {r.m : r \in {s \in {Matroid_init(StableGround, F) :
                                      F \in SUBSET (SUBSET StableGround)} :
                                 s.err = "none"}}
    /\ opt \in SetCompositionsOf(Cardinality(StableGround))

NextChrom == ChromStable \/ ChromFunction \/ ChromExample

SpecChrom == InitChrom /\ [][NextChrom]_vars

\* the set composition has one block for each of the elements 1..dim
SingletonBlocks(sc, dim) ==
    /\ Len(sc.parts) = dim
    /\ Range(sc.ground_set) = 1..dim
    /\ \A k \in 1..dim : Len(sc.parts[k]) = 1

\* the bases are a non-empty family with the basis exchange property
GenuineMatroid(m) == m.bases_sets # {} /\ ~ExchangeViolated(m.bases_sets)

\* C30: for every Matroid on {1..d} whose bases satisfy the basis exchange
\* axiom and every set composition of {1..d} with d singleton blocks,
\* stable_matroids_setcompositions returns True; so the loop of the example,
\* which adds such set compositions without evaluating the predicate, gives the
\* function that evaluating the predicate on every set composition gives.
C30_SingletonsStable ==
    /\ (/\ call.op = "stable_matroids_setcompositions"
        /\ GenuineMatroid(call.args[1])
        /\ SingletonBlocks(call.args[2], Cardinality(call.args[1].ground_set))) =>
           call.err = "none" /\ call.ret = TRUE
    /\ (call.op = "dimention_computation" /\ GenuineMatroid(call.args[1])) =>
           /\ call.err = "none"
           /\ DictOf(call.ret)
                  = DictOf(chromatic_non_commutative_quasisymmetric_function(
                               call.args[1],
                               [size |-> s_size, list |-> s_list]).coefficients)

\* the uniform matroid of rank 2 on {1,2,3} and (2|3|1): the scores of the
\* bases {1,2}, {1,3}, {2,3} are 2, 3, 1
C30_Witness ==
    /\ call.op = "stable_matroids_setcompositions"
    /\ call.args[1] = U23
    /\ call.args[2] = Blocks(<< <<2>>, <<3>>, <<1>> >>)
    /\ call.ret = TRUE

=============================================================================
